---- MODULE Spec2Model ----
(***************************************************************************)
(* The 3D layout engine of network-viz-3d (layoutAlgorithms.js): the four  *)
(* registered layouts, each a factory create(nodes, links, settings) that  *)
(* returns a handle with a step() operation.                               *)
(*                                                                         *)
(* Numbers.  Positions, velocities and forces are fixed-point integers in  *)
(* units of 1/Scale.  Settings and the annealing temperature are exact     *)
(* rationals <<numerator, denominator>>.  Angles and the values of sin and *)
(* cos are fixed-point integers in units of 1/TrigScale.  Divisions        *)
(* truncate toward zero.                                                   *)
(*                                                                         *)
(* Nodes are JavaScript objects: a node is a function from field names to  *)
(* values, a field that is undefined is a name outside its DOMAIN.         *)
(***************************************************************************)
EXTENDS Integers, Sequences, FiniteSets, TLC

VARIABLES
    algorithm,         \* registry key of the live handle, "none" before create()
    nodes,             \* the node array shared by the host and the handle
    links,             \* the link array
    settings,          \* the settings object handed to create()
    temperature,       \* Annealing: closure variable `temperature`
    currentIteration,  \* Annealing: closure variable `currentIteration`
    time,              \* Spherical: closure variable `time`
    result,            \* what the last step() call returned: "none", "true", "false"
    calls,             \* number of step() calls made on the handle
    returnedFalse,     \* some earlier step() call on the handle returned false
    host               \* the React state around the handle: App and NetworkGraph3D

vars == <<algorithm, nodes, links, settings, temperature, currentIteration,
          time, result, calls, returnedFalse, host>>

----------------------------------------------------------------------------
(* Numbers *)

Scale == 10 * 10
TrigScale == 100 * 100

Abs(a) == IF a < 0 THEN -a ELSE a
Min(a, b) == IF a < b THEN a ELSE b
Max(a, b) == IF a > b THEN a ELSE b

\* a / b truncated toward zero, b > 0
TDiv(a, b) == IF a >= 0 THEN a \div b ELSE -((-a) \div b)

RECURSIVE SqrtSearch(_, _, _)
SqrtSearch(n, lo, hi) ==
    IF lo >= hi THEN lo
    ELSE LET mid == (lo + hi + 1) \div 2
         IN IF mid * mid <= n THEN SqrtSearch(n, mid, hi)
            ELSE SqrtSearch(n, lo, mid - 1)

\* Math.sqrt on a non-negative integer: the largest r with r * r <= n
ISqrt(n) == SqrtSearch(n, 0, Min(n, 46340))

RECURSIVE Gcd(_, _)
Gcd(a, b) == IF b = 0 THEN a ELSE Gcd(b, a % b)

\* the rational n / d in lowest terms, d > 0
Rat(n, d) ==
    LET g == Gcd(Abs(n), d)
    IN IF g = 0 THEN <<0, 1>> ELSE <<n \div g, d \div g>>

RatMul(p, q) == Rat(p[1] * q[1], p[2] * q[2])

\* a / b <= c / d for a, c >= 0 and b, d > 0, by the quotients and the
\* remainders (no product is formed)
RECURSIVE FracLeq(_, _, _, _)
FracLeq(a, b, c, d) ==
    IF a \div b # c \div d THEN a \div b < c \div d
    ELSE IF a % b = 0 THEN TRUE
    ELSE IF c % d = 0 THEN FALSE
    ELSE FracLeq(d, c % d, b, a % b)

\* p <= q and p < q for rationals p, q >= 0
RatLeq(p, q) == FracLeq(p[1], p[2], q[1], q[2])
RatLess(p, q) == ~FracLeq(q[1], q[2], p[1], p[2])

\* a rational p >= 0 as a fixed-point number of units 1/Scale
RatToFixed(p) ==
    IF p[1] >= 0 THEN (p[1] \div p[2]) * Scale + ((p[1] % p[2]) * Scale) \div p[2]
    ELSE -(((-p[1]) \div p[2]) * Scale + (((-p[1]) % p[2]) * Scale) \div p[2])

Pi == 31416  \* Math.PI in units of 1/TrigScale

\* sin of an angle in [0, Pi/2], by its Taylor polynomial
SinQuadrant(r) ==
    LET r2 == (r * r) \div TrigScale
        t3 == ((r * r2) \div TrigScale) \div 6
        t5 == ((t3 * r2) \div TrigScale) \div 20
        t7 == ((t5 * r2) \div TrigScale) \div 42
    IN Min(TrigScale, r - t3 + t5 - t7)

\* Math.sin
Sin(a) ==
    LET r == a % (2 * Pi)
    IN IF r <= Pi \div 2 THEN SinQuadrant(r)
       ELSE IF r <= Pi THEN SinQuadrant(Pi - r)
       ELSE IF r <= Pi + Pi \div 2 THEN -SinQuadrant(r - Pi)
       ELSE -SinQuadrant(2 * Pi - r)

\* Math.cos
Cos(a) == Sin(a + Pi \div 2)

\* fixed-point value times a sin/cos value
MulTrig(a, t) == TDiv(a * t, TrigScale)

\* a * b / c for a, b >= 0 and c > 0, without an intermediate product
\* beyond the integer range
MulDiv(a, b, c) == (a \div c) * b + ((a % c) * b) \div c

\* (a * b) / c truncated toward zero, for a of either sign, b >= 0, c > 0
SignedMulDiv(a, b, c) == IF a >= 0 THEN MulDiv(a, b, c) ELSE -MulDiv(-a, b, c)

\* Math.sqrt(a * a + b * b + c * c); large components are scaled down first
Norm3(a, b, c) ==
    LET m == Max(Abs(a), Max(Abs(b), Abs(c)))
        k == m \div 20000 + 1
    IN k * ISqrt((a \div k) * (a \div k) + (b \div k) * (b \div k)
                     + (c \div k) * (c \div k))

RECURSIVE CbrtSearch(_, _, _)
CbrtSearch(n, lo, hi) ==
    IF lo >= hi THEN lo
    ELSE LET mid == (lo + hi + 1) \div 2
         IN IF mid * mid * mid <= n THEN CbrtSearch(n, mid, hi)
            ELSE CbrtSearch(n, lo, mid - 1)

\* Math.cbrt of a positive rational (below 2000000), as a fixed-point number
\* exact to one decimal
CbrtFixed(p) == (Scale \div 10) * CbrtSearch((p[1] * 1000) \div p[2], 0, 1290)

----------------------------------------------------------------------------
(* JavaScript objects and values *)

\* Object with the fields of b written over those of a
Merge(a, b) ==
    [g \in DOMAIN a \cup DOMAIN b |-> IF g \in DOMAIN b THEN b[g] ELSE a[g]]

\* `name = default` in a destructuring of the settings object
Setting(st, name, default) == IF name \in DOMAIN st THEN st[name] ELSE default

\* `node.vx || 0`
OrZero(node, f) == IF f \in DOMAIN node THEN node[f] ELSE 0

\* truthiness of a node id: the empty string (like the number 0) is falsy
Truthy(id) == id # ""

IdsOf(ns) == {ns[i].id : i \in 1..Len(ns)}

\* nodes.find(n => n.id === id): the index of the first such node, 0 if none
FindNode(ns, id) ==
    IF \E i \in 1..Len(ns) : ns[i].id = id
    THEN CHOOSE i \in 1..Len(ns) :
             ns[i].id = id /\ \A j \in 1..(i - 1) : ns[j].id # id
    ELSE 0

----------------------------------------------------------------------------
(* Annealing layout: createFruchtermanReingold3DLayout *)

\* the points that Math.random() may place a node on (inside the sphere of
\* radius 200), in units of 1/Scale
SpherePoints ==
    {[x |-> 0, y |-> 0, z |-> 0],
     [x |-> 12000, y |-> -9000, z |-> 8000],
     [x |-> -300, y |-> 400, z |-> 0]}

HasPosition(node) == {"x", "y", "z"} \subseteq DOMAIN node

Threshold == <<1, 100>>   \* 0.01

\* temperature < 0.01 and temperature > 0.01
BelowThreshold(t) == RatLess(t, Threshold)
AboveThreshold(t) == RatLess(Threshold, t)

FRVolume(st) == Setting(st, "volume", <<1000000, 1>>)

\* optimalDistance = Math.cbrt(volume / nodes.length)
OptimalDistance(ns, st) ==
    IF Len(ns) = 0 THEN 0
    ELSE CbrtFixed(Rat(FRVolume(st)[1], FRVolume(st)[2] * Len(ns)))

\* temperature = initialTemperature || Math.cbrt(volume) / 10
InitialTemperature(st) ==
    IF "initialTemperature" \in DOMAIN st /\ st.initialTemperature[1] # 0
    THEN st.initialTemperature
    ELSE Rat(CbrtFixed(FRVolume(st)), 10 * Scale)

\* calculateRepulsiveForce(distance, optimalDist)
CalculateRepulsiveForce(distance, optimalDist) ==
    (optimalDist * optimalDist) \div Max(distance, Scale)

\* calculateAttractiveForce(distance, optimalDist)
CalculateAttractiveForce(distance, optimalDist) ==
    MulDiv(distance, distance, optimalDist)

Zero3 == [x |-> 0, y |-> 0, z |-> 0]
Add3(u, v) == [x |-> u.x + v.x, y |-> u.y + v.y, z |-> u.z + v.z]
Sub3(u, v) == [x |-> u.x - v.x, y |-> u.y - v.y, z |-> u.z - v.z]
Same3(u) == u   \* Neg3 that does not negate
Neg3(u) == [x |-> -u.x, y |-> -u.y, z |-> -u.z]
Length3(u) == Norm3(u.x, u.y, u.z)

\* the vector d scaled to the length `force`, where distance = |d| > 0:
\* (d.x / distance) * force, ...
Along(d, distance, force) ==
    [x |-> SignedMulDiv(d.x, force, distance),
     y |-> SignedMulDiv(d.y, force, distance),
     z |-> SignedMulDiv(d.z, force, distance)]

RECURSIVE Sum3(_, _)
Sum3(q, k) == IF k > Len(q) THEN Zero3 ELSE Add3(q[k], Sum3(q, k + 1))

\* the repulsive force on nodeA from the pair (nodeA, nodeB)
FRRepulsion(nodeA, nodeB, optimalDist) ==
    LET d == Sub3(nodeA, nodeB)
        distance == Length3(d)
    IN IF distance > 0
       THEN Along(d, distance, CalculateRepulsiveForce(distance, optimalDist))
       ELSE Zero3

\* the attractive force on the source of a link between two nodes
FRAttraction(source, target, optimalDist) ==
    LET d == Sub3(target, source)
        distance == Length3(d)
    IN IF distance > 0
       THEN Along(d, distance, CalculateAttractiveForce(distance, optimalDist))
       ELSE Zero3

\* the links of which both ends are ids of nodes
Resolvable(ns, ls) ==
    SelectSeq(ls, LAMBDA l : FindNode(ns, l.source) # 0 /\ FindNode(ns, l.target) # 0)

\* ResolvedLinks that takes the first node for an end that matches no node
ResolvedLinksFirstNode(ns, ls) ==
    [k \in 1..Len(ls) |->
        [source |-> Max(1, FindNode(ns, ls[k].source)),
         target |-> Max(1, FindNode(ns, ls[k].target))]]

\* ResolvedLinks that takes the last node as the target of a self-loop
ResolvedLinksSelfLoopAway(ns, ls) ==
    [k \in 1..Len(Resolvable(ns, ls)) |->
        [source |-> FindNode(ns, Resolvable(ns, ls)[k].source),
         target |-> IF Resolvable(ns, ls)[k].source = Resolvable(ns, ls)[k].target
                    THEN Len(ns)
                    ELSE FindNode(ns, Resolvable(ns, ls)[k].target)]]

\* the links whose two ends resolve to nodes, as pairs of node indexes
ResolvedLinks(ns, ls) ==
    LET resolved == SelectSeq(ls, LAMBDA l :
                        FindNode(ns, l.source) # 0 /\ FindNode(ns, l.target) # 0)
    IN [k \in 1..Len(resolved) |->
           [source |-> FindNode(ns, resolved[k].source),
            target |-> FindNode(ns, resolved[k].target)]]

\* the pull to the center on one node
FRGravity(node, st) ==
    LET gravitationalConstant == Setting(st, "gravitationalConstant", <<1, 100>>)
        distanceFromCenter == Length3(node)
        gravitationalForce == TDiv(distanceFromCenter * gravitationalConstant[1],
                                   gravitationalConstant[2])
    IN IF distanceFromCenter > 0
       THEN Neg3(Along(node, distanceFromCenter, gravitationalForce))
       ELSE Zero3

\* fx, fy, fz of every node when the force loops are done
FRForces(ns, ls, st) ==
    LET optimalDist == OptimalDistance(ns, st)
        resolved == ResolvedLinks(ns, ls)
        pair == [i \in 1..Len(ns) |-> [j \in 1..Len(ns) |->
                    IF i < j THEN FRRepulsion(ns[i], ns[j], optimalDist) ELSE Zero3]]
        pull == [k \in 1..Len(resolved) |->
                    FRAttraction(ns[resolved[k].source], ns[resolved[k].target],
                        optimalDist)]
    IN [i \in 1..Len(ns) |->
           Add3(Add3(Sum3([j \in 1..Len(ns) |->
                               IF i < j THEN pair[i][j]
                               ELSE IF j < i THEN Neg3(pair[j][i]) ELSE Zero3], 1),
                     Sum3([k \in 1..Len(resolved) |->
                               Add3(IF resolved[k].source = i THEN pull[k] ELSE Zero3,
                                    IF resolved[k].target = i THEN Neg3(pull[k])
                                    ELSE Zero3)], 1)),
                FRGravity(ns[i], st))]

\* FRDisplace without the temperature limit: the whole force is applied
FRDisplaceUnlimited(node, f, t) == Add3(node, f)

\* the position after `node.x += node.fx * ratio`, ...: the force cut to the
\* length min(temperature, forceLength)
FRDisplace(node, f, t) ==
    LET forceLength == Length3(f)
        displacement == Min(RatToFixed(t), forceLength)
    IN Add3(node, Along(f, forceLength, displacement))

\* `if (Math.abs(c) > maxBound) c *= (1 - boundingForce)` on one coordinate
SoftBound(c, maxBound) == IF Abs(c) > maxBound THEN TDiv(c * 9, 10) ELSE c

\* FRApply that builds a new object in place of writing to the node
FRApplyFresh(node, f, t, st) ==
    [fx |-> f.x, fy |-> f.y, fz |-> f.z, x |-> node.x, y |-> node.y, z |-> node.z]

\* one node after the loop "apply forces with temperature constraint"
FRApply(node, f, t, st) ==
    LET maxBound == CbrtFixed(FRVolume(st)) \div 2
        moved == FRDisplace(node, f, t)
    IN Merge(node,
           IF Length3(f) > 0
           THEN [fx |-> f.x, fy |-> f.y, fz |-> f.z,
                 x |-> SoftBound(moved.x, maxBound),
                 y |-> SoftBound(moved.y, maxBound),
                 z |-> SoftBound(moved.z, maxBound)]
           ELSE [fx |-> f.x, fy |-> f.y, fz |-> f.z])

\* the first line of step(): the handle is exhausted
FRExhausted(st, iteration, t) ==
    iteration >= Setting(st, "iterations", 100) \/ BelowThreshold(t)

\* FRContinue that tests the iteration count alone
FRContinueByCount(st, iteration, t) == iteration < Setting(st, "iterations", 100)

\* the value step() returns after a simulated iteration
FRContinue(st, iteration, t) ==
    iteration < Setting(st, "iterations", 100) /\ AboveThreshold(t)

\* Cool applied twice in a step
CoolTwice(t, st) ==
    RatMul(RatMul(t, Setting(st, "coolingRate", <<95, 100>>)),
           Setting(st, "coolingRate", <<95, 100>>))

\* the temperature is kept exactly while its denominator is at most
\* TemperatureExact, and cut to a multiple of 1 / TemperatureGrid beyond
TemperatureExact == 6400000
TemperatureGrid == 1000000

RECURSIVE GridDigits(_, _, _)
GridDigits(r, d, unit) ==
    IF unit = 0 THEN 0
    ELSE ((r * 10) \div d) * unit + GridDigits((r * 10) % d, d, unit \div 10)

OnGrid(q) ==
    IF q[2] <= TemperatureExact THEN q
    ELSE Rat((q[1] \div q[2]) * TemperatureGrid
                 + GridDigits(q[1] % q[2], q[2], TemperatureGrid \div 10),
             TemperatureGrid)

\* temperature *= coolingRate
Cool(t, st) == OnGrid(RatMul(t, Setting(st, "coolingRate", <<95, 100>>)))

CreateFruchtermanReingold ==
    /\ algorithm = "none"
    /\ algorithm' = "fruchterman-reingold-3d"
    /\ \E at \in [1..Len(nodes) -> SpherePoints] :
           nodes' = [i \in 1..Len(nodes) |->
                        IF HasPosition(nodes[i]) THEN nodes[i]
                        ELSE Merge(nodes[i], at[i])]
    /\ temperature' = InitialTemperature(settings)
    /\ currentIteration' = 0
    /\ UNCHANGED <<links, settings, time, result, calls, returnedFalse, host>>

MaxCalls == 5

\* handle.step() of the Annealing layout
StepFruchtermanReingoldWithin(bound) ==
    /\ algorithm = "fruchterman-reingold-3d"
    /\ calls < bound
    /\ calls' = calls + 1
    /\ IF FRExhausted(settings, currentIteration, temperature)
       THEN /\ result' = "false"
            /\ UNCHANGED <<nodes, temperature, currentIteration>>
       ELSE /\ \E forces \in {FRForces(nodes, links, settings)} :
                   nodes' = [i \in 1..Len(nodes) |->
                                FRApply(nodes[i], forces[i], temperature, settings)]
            /\ temperature' = Cool(temperature, settings)
            /\ currentIteration' = currentIteration + 1
            /\ result' = IF FRContinue(settings, currentIteration', temperature')
                         THEN "true" ELSE "false"
    /\ returnedFalse' = (returnedFalse \/ result' = "false")
    /\ UNCHANGED <<algorithm, links, settings, time>>

StepFruchtermanReingold ==
    StepFruchtermanReingoldWithin(MaxCalls) /\ UNCHANGED host

----------------------------------------------------------------------------
(* Baseline layout: create3DForceDirectedLayout *)

\* the values (Math.random() - 0.5) * 400 may give a coordinate, in units of
\* 1/Scale
RandomCoordinates == {-15000, 0, 5000}

\* the force on nodeA from the pair (nodeA, nodeB):
\* repulsiveStrength / distanceSquared along (dx, dy, dz) / distance
BaselineRepulsion(nodeA, nodeB, st) ==
    LET d == Sub3(nodeA, nodeB)
        distanceSquared == d.x * d.x + d.y * d.y + d.z * d.z + Scale * Scale
        distance == ISqrt(distanceSquared)
        repulsiveStrength == Setting(st, "repulsiveStrength", <<20, 1>>)
        force == (repulsiveStrength[1] * Scale * Scale * Scale)
                     \div (repulsiveStrength[2] * distanceSquared)
    IN Along(d, distance, force)

\* the force on the source of a link:
\* attractiveStrength * (distance - linkDistance) along (dx, dy, dz) / distance
BaselineAttraction(source, target, st) ==
    LET d == Sub3(target, source)
        distance == Length3(d)
        attractiveStrength == Setting(st, "attractiveStrength", <<1, 100>>)
        linkDistance == RatToFixed(Setting(st, "linkDistance", <<1, 100>>))
        force == TDiv((distance - linkDistance) * attractiveStrength[1],
                      attractiveStrength[2])
    IN IF distance = 0 THEN Zero3
       ELSE IF force >= 0 THEN Along(d, distance, force)
       ELSE Neg3(Along(d, distance, -force))

\* node.fx -= node.x * centeringStrength, ...
BaselineCentering(node, st) ==
    LET centeringStrength == Setting(st, "centeringStrength", <<1, 1000>>)
    IN [x |-> -TDiv(node.x * centeringStrength[1], centeringStrength[2]),
        y |-> -TDiv(node.y * centeringStrength[1], centeringStrength[2]),
        z |-> -TDiv(node.z * centeringStrength[1], centeringStrength[2])]

\* fx, fy, fz of every node when the force loops are done
BaselineForces(ns, ls, st) ==
    LET resolved == ResolvedLinks(ns, ls)
        pair == [i \in 1..Len(ns) |-> [j \in 1..Len(ns) |->
                    IF i < j THEN BaselineRepulsion(ns[i], ns[j], st) ELSE Zero3]]
        pull == [k \in 1..Len(resolved) |->
                    BaselineAttraction(ns[resolved[k].source], ns[resolved[k].target],
                        st)]
    IN [i \in 1..Len(ns) |->
           Add3(Add3(Sum3([j \in 1..Len(ns) |->
                               IF i < j THEN pair[i][j]
                               ELSE IF j < i THEN Neg3(pair[j][i]) ELSE Zero3], 1),
                     Sum3([k \in 1..Len(resolved) |->
                               Add3(IF resolved[k].source = i THEN pull[k] ELSE Zero3,
                                    IF resolved[k].target = i THEN Neg3(pull[k])
                                    ELSE Zero3)], 1)),
                BaselineCentering(ns[i], st))]

\* DampedVelocity without the damping factor
DampedVelocityUndamped(node, f, st) ==
    [x |-> TDiv(10 * node.vx + f.x, 10),
     y |-> TDiv(10 * node.vy + f.y, 10),
     z |-> TDiv(10 * node.vz + f.z, 10)]

\* node.vx = (node.vx + node.fx * 0.1) * dampingFactor, ...
DampedVelocity(node, f, st) ==
    LET dampingFactor == Setting(st, "dampingFactor", <<9, 10>>)
    IN [x |-> TDiv((10 * node.vx + f.x) * dampingFactor[1], 10 * dampingFactor[2]),
        y |-> TDiv((10 * node.vy + f.y) * dampingFactor[1], 10 * dampingFactor[2]),
        z |-> TDiv((10 * node.vz + f.z) * dampingFactor[1], 10 * dampingFactor[2])]

\* the square of `velocity`
SpeedSquared(v) == v.x * v.x + v.y * v.y + v.z * v.z

\* `if (velocity > maxVelocity) { v *= maxVelocity / velocity }`
LimitVelocity(v, st) ==
    LET maxVelocity == RatToFixed(Setting(st, "maxVelocity", <<10, 1>>))
    IN IF SpeedSquared(v) > maxVelocity * maxVelocity
       THEN Along(v, Length3(v), maxVelocity)
       ELSE v

\* Constrain without the lower bound
ConstrainAbove(c) == Min(1000 * Scale, c)

\* Math.max(-maxBound, Math.min(maxBound, c)) with maxBound = 1000
Constrain(c) == Max(-(1000 * Scale), Min(1000 * Scale, c))

\* one node after the loop "update velocities and positions with damping"
Integrate(node, f, st) ==
    LET v == LimitVelocity(DampedVelocity(node, f, st), st)
    IN Merge(node, [fx |-> f.x, fy |-> f.y, fz |-> f.z,
                    vx |-> v.x, vy |-> v.y, vz |-> v.z,
                    x |-> Constrain(node.x + v.x),
                    y |-> Constrain(node.y + v.y),
                    z |-> Constrain(node.z + v.z)])

\* StillMoving that asks every node's `velocity` to exceed 0.1
StillMovingAll(ns, forces, st) ==
    \A i \in 1..Len(ns) :
        SpeedSquared(DampedVelocity(ns[i], forces[i], st))
            > (Scale \div 10) * (Scale \div 10)

\* maxDisplacement > 0.1: some node's `velocity` exceeds 0.1
StillMoving(ns, forces, st) ==
    \E i \in 1..Len(ns) :
        SpeedSquared(DampedVelocity(ns[i], forces[i], st))
            > (Scale \div 10) * (Scale \div 10)

\* one node after the loop "initialize positions if not set": each missing
\* coordinate gets a random value, a missing velocity becomes 0
ScatterNode(node) ==
    {Merge(Merge(at, node),
           [vx |-> OrZero(node, "vx"), vy |-> OrZero(node, "vy"),
            vz |-> OrZero(node, "vz")]) :
        at \in [{"x", "y", "z"} \ DOMAIN node -> RandomCoordinates]}

\* the node arrays that the loop can leave, from node i on
RECURSIVE ScatterFrom(_, _)
ScatterFrom(ns, i) ==
    IF i > Len(ns) THEN {<<>>}
    ELSE {<<first>> \o rest : first \in ScatterNode(ns[i]),
                              rest \in ScatterFrom(ns, i + 1)}

\* create3DForceDirectedLayout(nodes, links, settings)
CreateForceDirected ==
    /\ algorithm = "none"
    /\ algorithm' = "3d-force-directed"
    /\ nodes' \in ScatterFrom(nodes, 1)
    /\ UNCHANGED <<links, settings, temperature, currentIteration, time, result,
                   calls, returnedFalse, host>>

\* handle.step() of the Baseline layout
StepForceDirectedWithin(bound) ==
    /\ algorithm = "3d-force-directed"
    /\ calls < bound
    /\ calls' = calls + 1
    /\ \E forces \in {BaselineForces(nodes, links, settings)} :
           /\ nodes' = [i \in 1..Len(nodes) |->
                           Integrate(nodes[i], forces[i], settings)]
           /\ result' = IF StillMoving(nodes, forces, settings)
                        THEN "true" ELSE "false"
    /\ returnedFalse' = (returnedFalse \/ result' = "false")
    /\ UNCHANGED <<algorithm, links, settings, temperature, currentIteration, time>>

StepForceDirected == StepForceDirectedWithin(MaxCalls) /\ UNCHANGED host

----------------------------------------------------------------------------
(* Spherical layout: createSphericalLayout *)

\* NodeDegree that counts the links leaving the node only
NodeDegreeOutgoing(ls, id) == Cardinality({k \in 1..Len(ls) : ls[k].source = id})

\* nodeDegrees.get(id) after the loop over the links
NodeDegree(ls, id) ==
    Cardinality({k \in 1..Len(ls) : ls[k].source = id})
        + Cardinality({k \in 1..Len(ls) : ls[k].target = id})

RECURSIVE ReduceCenter(_, _, _, _)
ReduceCenter(ns, ls, i, max) ==
    IF i > Len(ns) THEN max
    ELSE ReduceCenter(ns, ls, i + 1,
             IF NodeDegree(ls, ns[i].id) > NodeDegree(ls, ns[max].id)
             THEN i ELSE max)

\* centerNode: index of the node nodes.reduce() keeps (nodes is not empty)
CenterNode(ns, ls) == ReduceCenter(ns, ls, 2, 1)

\* the body of links.forEach inside the BFS loop, for links k..Len(ls);
\* s = [visited, distances, queue], cur = the dequeued {node, distance}
RECURSIVE VisitLinks(_, _, _, _, _)
VisitLinks(ns, ls, k, cur, s) ==
    IF k > Len(ls) THEN s
    ELSE LET sourceId == ls[k].source
             targetId == ls[k].target
             viaSource == sourceId = cur.id /\ targetId \notin s.visited
             viaTarget == targetId = cur.id /\ sourceId \notin s.visited
             neighborId == IF viaSource THEN targetId ELSE sourceId
             take == /\ viaSource \/ viaTarget
                     /\ Truthy(neighborId)
                     /\ neighborId \notin s.visited
             entry == [id |-> neighborId, distance |-> cur.distance + 1]
         IN VisitLinks(ns, ls, k + 1, cur,
                IF take
                THEN [visited |-> s.visited \cup {neighborId},
                      distances |->
                          [g \in DOMAIN s.distances \cup {neighborId} |->
                              IF g = neighborId THEN cur.distance + 1
                              ELSE s.distances[g]],
                      queue |-> IF FindNode(ns, neighborId) # 0
                                THEN Append(s.queue, entry) ELSE s.queue]
                ELSE s)

RECURSIVE BfsLoop(_, _, _)
BfsLoop(ns, ls, s) ==
    IF s.queue = <<>> THEN s.distances
    ELSE BfsLoop(ns, ls,
             VisitLinks(ns, ls, 1, Head(s.queue),
                 [s EXCEPT !.queue = Tail(s.queue)]))

\* calculateDistances(startNode): the Map distances, id -> hop count
CalculateDistances(ns, ls, startId) ==
    BfsLoop(ns, ls,
        [visited |-> {startId},
         distances |-> [g \in {startId} |-> 0],
         queue |-> <<[id |-> startId, distance |-> 0]>>])

\* SphericalLayerIndex without Math.min
SphericalLayerIndexUnclamped(distances, id, layerCount) ==
    IF id \in DOMAIN distances /\ distances[id] # 0 THEN distances[id]
    ELSE layerCount - 1

\* `distances.get(node.id) || layerCount - 1`, then the cap
SphericalLayerIndex(distances, id, layerCount) ==
    LET got == IF id \in DOMAIN distances THEN distances[id] ELSE 0
        distance == IF got # 0 THEN got ELSE layerCount - 1
    IN Min(distance, layerCount - 1)

\* layers[layerIndex]: the indexes of its nodes, in the order of the pushes
SphericalLayer(ns, layerOf, layerIndex) ==
    SelectSeq([i \in 1..Len(ns) |-> i], LAMBDA i : layerOf[i] = layerIndex)

\* index (from 0) of node i within its layer
IndexInLayer(layerOf, i) ==
    Cardinality({j \in 1..(i - 1) : layerOf[j] = layerOf[i]})

GoldenAngle == MulTrig(Pi, 3 * TrigScale - ISqrt(5 * TrigScale * TrigScale))

\* the fields written on one node while positioning its layer
SphericalPlace(node, layerIndex, nodeIndex, nodesCount, st) ==
    LET radius == Setting(st, "radius", <<400, 1>>)
        layerCount == Setting(st, "layerCount", 5)
        densityAdjustment == Setting(st, "densityAdjustment", <<12, 10>>)
        levelSeparation == Setting(st, "levelSeparation", <<8, 10>>)
        layerRadius ==
            IF layerIndex = 0 THEN 0
            ELSE RatToFixed(RatMul(RatMul(Rat(layerIndex, layerCount), radius),
                                   densityAdjustment))
        \* y = 1 - 2 * nodeIndex / (nodesCount - 1), over m = nodesCount - 1
        m == Max(nodesCount - 1, 1)
        yNum == m - 2 * nodeIndex
        radiusAtY ==
            ISqrt(Max(0, m * m - yNum * yNum) * TrigScale * TrigScale) \div m
        theta == GoldenAngle * nodeIndex
        pos == IF layerIndex = 0 /\ nodesCount = 1
               THEN [x |-> 0, y |-> 0, z |-> 0]
               ELSE IF nodesCount = 1
               THEN [x |-> layerRadius, y |-> 0, z |-> 0]
               ELSE [x |-> MulTrig(MulTrig(layerRadius, radiusAtY), Cos(theta)),
                     y |-> RatToFixed(RatMul(Rat(layerRadius * yNum, m * Scale),
                                             levelSeparation)),
                     z |-> MulTrig(MulTrig(layerRadius, radiusAtY), Sin(theta))]
    IN Merge(node,
           [x |-> pos.x, y |-> pos.y, z |-> pos.z,
            targetX |-> pos.x, targetY |-> pos.y, targetZ |-> pos.z,
            vx |-> OrZero(node, "vx"), vy |-> OrZero(node, "vy"),
            vz |-> OrZero(node, "vz"), layer |-> layerIndex])

\* the node array after createSphericalLayout(nodes, links, settings)
SphericalNodes(ns, ls, st) ==
    LET layerCount == Setting(st, "layerCount", 5)
        centerNode == CenterNode(ns, ls)
        distances == CalculateDistances(ns, ls, ns[centerNode].id)
        layerOf == [i \in 1..Len(ns) |->
                       SphericalLayerIndex(distances, ns[i].id, layerCount)]
    IN [i \in 1..Len(ns) |->
           SphericalPlace(ns[i], layerOf[i], IndexInLayer(layerOf, i),
               Len(SphericalLayer(ns, layerOf, layerOf[i])), st)]

CreateSpherical ==
    /\ algorithm = "none"
    /\ IF nodes = <<>>
       THEN \* nodes.reduce() of an empty array without an initial value
            /\ result' = "TypeError"
            /\ UNCHANGED <<algorithm, nodes, time>>
       ELSE /\ algorithm' = "spherical"
            /\ nodes' = SphericalNodes(nodes, links, settings)
            /\ time' = 0
            /\ UNCHANGED result
    /\ UNCHANGED <<links, settings, temperature, currentIteration, calls,
                   returnedFalse, host>>

\* (v + (target - c) * springForce) * damping with springForce = 0.02 and
\* damping = 0.9
SpringVelocity(v, c, target) == TDiv((50 * v + (target - c)) * 9, 500)

\* one node after the body of nodes.forEach in step(), at the time t
RotateNode(node, t) ==
    LET layerRotation == TDiv(t * (5 + node.layer), 5)
        currentRadius == Norm3(node.targetX, 0, node.targetZ)
        vx == SpringVelocity(node.vx, node.x,
                  MulTrig(currentRadius, Cos(layerRotation)))
        vz == SpringVelocity(node.vz, node.z,
                  MulTrig(currentRadius, Sin(layerRotation)))
    IN IF currentRadius > 0
       THEN Merge(node, [vx |-> vx, vz |-> vz, x |-> node.x + vx, z |-> node.z + vz])
       ELSE node

\* StepSpherical that returns `hasMovement`
StepSphericalUntilStill ==
    /\ algorithm = "spherical"
    /\ calls < MaxCalls
    /\ calls' = calls + 1
    /\ time' = time + TDiv(Setting(settings, "rotationSpeed", <<5, 1000>>)[1] * TrigScale,
                           Setting(settings, "rotationSpeed", <<5, 1000>>)[2])
    /\ nodes' = [i \in 1..Len(nodes) |-> RotateNode(nodes[i], time')]
    /\ result' = IF \E i \in 1..Len(nodes) :
                       /\ Norm3(nodes[i].targetX, 0, nodes[i].targetZ) > 0
                       /\ Abs(nodes'[i].vx) > 1 \/ Abs(nodes'[i].vz) > 1
                 THEN "true" ELSE "false"
    /\ returnedFalse' = (returnedFalse \/ result' = "false")
    /\ UNCHANGED <<algorithm, links, settings, temperature, currentIteration, host>>

\* handle.step() of the Spherical layout
StepSphericalWithin(bound) ==
    /\ algorithm = "spherical"
    /\ calls < bound
    /\ calls' = calls + 1
    /\ time' = time + TDiv(Setting(settings, "rotationSpeed", <<5, 1000>>)[1] * TrigScale,
                           Setting(settings, "rotationSpeed", <<5, 1000>>)[2])
    /\ nodes' = [i \in 1..Len(nodes) |-> RotateNode(nodes[i], time')]
    /\ result' = "true"
    /\ returnedFalse' = returnedFalse
    /\ UNCHANGED <<algorithm, links, settings, temperature, currentIteration>>

StepSpherical == StepSphericalWithin(MaxCalls) /\ UNCHANGED host

----------------------------------------------------------------------------
(* Layered (Sugiyama-style) layout: createLayeredLayout *)

\* the links that enter the adjacency lists: both ends are node ids
AdjacencyLinks(ns, ls) ==
    SelectSeq(ls, LAMBDA l : l.source \in IdsOf(ns) /\ l.target \in IdsOf(ns))

\* the Map adjacency, id -> {incoming, outgoing}
Adjacency(ns, ls) ==
    LET adj == AdjacencyLinks(ns, ls)
    IN [id \in IdsOf(ns) |->
           [incoming |->
                LET in == SelectSeq(adj, LAMBDA l : l.target = id)
                IN [k \in 1..Len(in) |-> in[k].source],
            outgoing |->
                LET out == SelectSeq(adj, LAMBDA l : l.source = id)
                IN [k \in 1..Len(out) |-> out[k].target]]]

\* RelaxOutgoing layering a neighbour when it is first reached, whatever
\* its remaining in-degree
RECURSIVE RelaxOutgoingFirstReached(_, _, _, _, _)
RelaxOutgoingFirstReached(ns, out, k, currentLayer, s) ==
    IF k > Len(out) THEN s
    ELSE LET neighborId == out[k]
         IN RelaxOutgoingFirstReached(ns, out, k + 1, currentLayer,
                IF neighborId \notin DOMAIN s.layers /\ FindNode(ns, neighborId) # 0
                THEN [s EXCEPT
                         !.layers = [g \in DOMAIN s.layers \cup {neighborId} |->
                                        IF g = neighborId THEN currentLayer + 1
                                        ELSE s.layers[g]],
                         !.nextLayerNodes = Append(@, neighborId)]
                ELSE s)

\* the body of outgoing.forEach for the neighbours out[k..];
\* s = [inDegree, layers, nextLayerNodes]
RECURSIVE RelaxOutgoing(_, _, _, _, _)
RelaxOutgoing(ns, out, k, currentLayer, s) ==
    IF k > Len(out) THEN s
    ELSE LET neighborId == out[k]
             newInDegree == s.inDegree[neighborId] - 1
             lowered == [s EXCEPT !.inDegree[neighborId] = newInDegree]
         IN RelaxOutgoing(ns, out, k + 1, currentLayer,
                IF newInDegree = 0 /\ FindNode(ns, neighborId) # 0
                THEN [lowered EXCEPT
                         !.layers = [g \in DOMAIN s.layers \cup {neighborId} |->
                                        IF g = neighborId THEN currentLayer + 1
                                        ELSE s.layers[g]],
                         !.nextLayerNodes = Append(@, neighborId)]
                ELSE lowered)

\* currentLayerNodes.forEach, for the nodes cur[j..]
RECURSIVE RelaxLayer(_, _, _, _, _, _)
RelaxLayer(ns, adjacency, cur, j, currentLayer, s) ==
    IF j > Len(cur) THEN s
    ELSE RelaxLayer(ns, adjacency, cur, j + 1, currentLayer,
             RelaxOutgoing(ns, adjacency[cur[j]].outgoing, 1, currentLayer, s))

\* LayerLoop without `currentLayer++`
RECURSIVE LayerLoopNoIncrement(_, _, _, _, _)
LayerLoopNoIncrement(ns, adjacency, cur, currentLayer, s) ==
    IF cur = <<>> THEN [layers |-> s.layers, currentLayer |-> currentLayer]
    ELSE LET done == RelaxLayer(ns, adjacency, cur, 1, currentLayer,
                         [s EXCEPT !.nextLayerNodes = <<>>])
         IN LayerLoopNoIncrement(ns, adjacency, done.nextLayerNodes, currentLayer, done)

\* the while loop; yields [layers, currentLayer] as they stand after it
RECURSIVE LayerLoop(_, _, _, _, _)
LayerLoop(ns, adjacency, cur, currentLayer, s) ==
    IF cur = <<>> THEN [layers |-> s.layers, currentLayer |-> currentLayer]
    ELSE LET done == RelaxLayer(ns, adjacency, cur, 1, currentLayer,
                         [s EXCEPT !.nextLayerNodes = <<>>])
         IN LayerLoop(ns, adjacency, done.nextLayerNodes, currentLayer + 1, done)

\* the layering pass of assignLayers, before the fallback for the nodes left
LayeringPass(ns, adjacency) ==
    LET ids == [i \in 1..Len(ns) |-> ns[i].id]
        inDegree == [id \in IdsOf(ns) |-> Len(adjacency[id].incoming)]
        queue == SelectSeq(ids, LAMBDA id : inDegree[id] = 0)
    IN LayerLoop(ns, adjacency, queue, 0,
           [inDegree |-> inDegree,
            layers |-> [id \in {queue[k] : k \in 1..Len(queue)} |-> 0],
            nextLayerNodes |-> <<>>])

\* assignLayers() with the nodes left put into the last layer of the pass
AssignLayersLastOfPass(ns, adjacency) ==
    LET pass == LayeringPass(ns, adjacency)
    IN [id \in IdsOf(ns) |->
           IF id \in DOMAIN pass.layers THEN pass.layers[id]
           ELSE Max(0, pass.currentLayer - 1)]

\* assignLayers(): the Map layers, id -> layer
AssignLayers(ns, adjacency) ==
    LET pass == LayeringPass(ns, adjacency)
    IN [id \in IdsOf(ns) |->
           IF id \in DOMAIN pass.layers THEN pass.layers[id]
           ELSE pass.currentLayer]

\* Math.max(...values)
MaxOf(f) == CHOOSE v \in {f[g] : g \in DOMAIN f} : \A g \in DOMAIN f : f[g] <= v

\* layerGroups[layer]: the indexes of its nodes, in the order of the pushes
LayerGroup(ns, nodeLayers, layer) ==
    SelectSeq([i \in 1..Len(ns) |-> i], LAMBDA i : nodeLayers[ns[i].id] = layer)

\* index (from 0) of node i within its layer group
IndexInGroup(ns, nodeLayers, i) ==
    Cardinality({j \in 1..(i - 1) : nodeLayers[ns[j].id] = nodeLayers[ns[i].id]})

\* Math.max(nodeSpacing, count * nodeSpacing / (2 * Math.PI))
CircleRadius(count, st) ==
    LET nodeSpacing == RatToFixed(Setting(st, "nodeSpacing", <<100, 1>>))
    IN Max(nodeSpacing, TDiv(count * nodeSpacing * TrigScale, 2 * Pi))

\* slot `index` of `count` on the layer's circle
SlotAngle(index, count) == (2 * Pi * index) \div count
Slot(index, count, st) ==
    [x |-> MulTrig(CircleRadius(count, st), Cos(SlotAngle(index, count))),
     z |-> MulTrig(CircleRadius(count, st), Sin(SlotAngle(index, count)))]

\* positionNodes(): the node array with every node on its layer
PositionNodes(ns, nodeLayers, st) ==
    LET maxLayer == MaxOf(nodeLayers)
        layerSpacing == Setting(st, "layerSpacing", <<300, 1>>)
        y == [layerIndex \in 0..maxLayer |->
                 RatToFixed(RatMul(Rat(2 * layerIndex - maxLayer, 2), layerSpacing))]
        nodesInLayer == [layerIndex \in 0..maxLayer |->
                            Len(LayerGroup(ns, nodeLayers, layerIndex))]
    IN [i \in 1..Len(ns) |->
           LET layerIndex == nodeLayers[ns[i].id]
               at == IF nodesInLayer[layerIndex] = 1 THEN [x |-> 0, z |-> 0]
                     ELSE Slot(IndexInGroup(ns, nodeLayers, i),
                              nodesInLayer[layerIndex], st)
           IN Merge(ns[i],
                  [x |-> at.x, y |-> y[layerIndex], z |-> at.z,
                   vx |-> OrZero(ns[i], "vx"), vy |-> OrZero(ns[i], "vy"),
                   vz |-> OrZero(ns[i], "vz"), layer |-> layerIndex])]

\* atan of a ratio t in [0, 1]: the largest angle a in lo..hi with tan a <= t
RECURSIVE AtanSearch(_, _, _)
AtanSearch(t, lo, hi) ==
    IF lo >= hi THEN lo
    ELSE LET mid == (lo + hi + 1) \div 2
         IN IF Sin(mid) * TrigScale <= t * Cos(mid) THEN AtanSearch(t, mid, hi)
            ELSE AtanSearch(t, lo, mid - 1)

\* atan(az / ax) for az, ax >= 0, not both 0, in [0, Pi / 2]
AtanQuadrant(az, ax) ==
    IF az <= ax
    THEN AtanSearch((az * TrigScale) \div ax, 0, Pi \div 4)
    ELSE Pi \div 2 - AtanSearch((ax * TrigScale) \div az, 0, Pi \div 4)

\* the angle phi of the first quadrant carried to the quadrant of (x, z)
InQuadrant(phi, z, x) ==
    IF x >= 0 THEN (IF z >= 0 THEN phi ELSE -phi)
    ELSE (IF z >= 0 THEN Pi - phi ELSE -(Pi - phi))

\* Math.atan2(z, x), in (-Pi, Pi]
Atan2(z, x) ==
    IF x = 0 /\ z = 0 THEN 0
    ELSE InQuadrant(AtanQuadrant(Abs(z), Abs(x)), z, x)

RECURSIVE SumSeq(_, _)
SumSeq(q, k) == IF k > Len(q) THEN 0 ELSE q[k] + SumSeq(q, k + 1)

\* the barycenter of a node with the predecessor ids `incoming`: the mean
\* angle of those that lie in previousLayer, 0 when none does;
\* angleOf[id] = Math.atan2(z, x) of the node `id` of previousLayer
Barycenter(incoming, angleOf) ==
    LET connectedNodes == SelectSeq(incoming, LAMBDA id : id \in DOMAIN angleOf)
        angles == [k \in 1..Len(connectedNodes) |-> angleOf[connectedNodes[k]]]
    IN IF Len(connectedNodes) = 0 THEN 0
       ELSE TDiv(SumSeq(angles, 1), Len(connectedNodes))

\* angleOf[id] = Math.atan2(z, x) of the node `id` of previousLayer
AnglesOf(ns, previousLayer) ==
    [id \in {ns[previousLayer[j]].id : j \in 1..Len(previousLayer)} |->
        Atan2(ns[FindNode(ns, id)].z, ns[FindNode(ns, id)].x)]

\* the barycenter of every node of currentLayer
Barycenters(ns, adjacency, currentLayer, angleOf) ==
    [k \in 1..Len(currentLayer) |->
        Barycenter(adjacency[ns[currentLayer[k]].id].incoming, angleOf)]

\* SortedIndex that gives entries of equal barycenter the same place
SortedIndexTied(barycenters) ==
    [k \in DOMAIN barycenters |->
        Cardinality({j \in DOMAIN barycenters : barycenters[j] < barycenters[k]})]

\* barycenters.sort(...): the place of every entry after the (stable) sort,
\* counted from 0
SortedIndex(barycenters) ==
    [k \in DOMAIN barycenters |->
        Cardinality({j \in DOMAIN barycenters :
            \/ barycenters[j] < barycenters[k]
            \/ (barycenters[j] = barycenters[k] /\ j < k)})]

\* newX, newZ of every entry: the slot of its place on the layer's circle
NewSlots(index, count, st) == [k \in DOMAIN index |-> Slot(index[k], count, st)]

\* Math.abs(node.x - newX) > 1 || Math.abs(node.z - newZ) > 1
MovesTo(node, slot) ==
    Abs(node.x - slot.x) > Scale \/ Abs(node.z - slot.z) > Scale

\* barycenters.forEach(...): every node of currentLayer that is more than 1
\* away from its slot in x or in z is moved there
Reposition(ns, currentLayer, slot) ==
    [nodes |-> [i \in 1..Len(ns) |->
                   IF \E k \in DOMAIN slot :
                          currentLayer[k] = i /\ MovesTo(ns[i], slot[k])
                   THEN Merge(ns[i], slot[CHOOSE k \in DOMAIN slot : currentLayer[k] = i])
                   ELSE ns[i]],
     hasChanges |-> \E k \in DOMAIN slot : MovesTo(ns[currentLayer[k]], slot[k])]

\* the layer currentLayer of a crossing-reduction pass, given the layer
\* before it
ReorderGroup(ns, adjacency, currentLayer, previousLayer, st) ==
    Reposition(ns, currentLayer,
        NewSlots(SortedIndex(Barycenters(ns, adjacency, currentLayer,
                                 AnglesOf(ns, previousLayer))),
                 Len(currentLayer), st))

\* one layer of a crossing-reduction pass
ReorderLayer(ns, adjacency, nodeLayers, layerIndex, st) ==
    ReorderGroup(ns, adjacency, LayerGroup(ns, nodeLayers, layerIndex),
        LayerGroup(ns, nodeLayers, layerIndex - 1), st)

RECURSIVE ReorderLayers(_, _, _, _, _, _)

\* the layers after layerIndex, when `one` is the outcome of layerIndex
ReorderRest(one, adjacency, nodeLayers, layerIndex, hasChanges, st) ==
    ReorderLayers(one.nodes, adjacency, nodeLayers, layerIndex + 1,
        hasChanges \/ one.hasChanges, st)

\* the loop over the layers 1..maxLayer of one pass, from layerIndex on
ReorderLayers(ns, adjacency, nodeLayers, layerIndex, hasChanges, st) ==
    IF layerIndex > MaxOf(nodeLayers)
    THEN [nodes |-> ns, hasChanges |-> hasChanges]
    ELSE ReorderRest(ReorderLayer(ns, adjacency, nodeLayers, layerIndex, st),
             adjacency, nodeLayers, layerIndex, hasChanges, st)

RECURSIVE CrossingPasses(_, _, _, _, _)

\* `if (!hasChanges) break;` and the passes after iter
AfterPass(pass, adjacency, nodeLayers, iter, st) ==
    IF ~pass.hasChanges THEN pass.nodes
    ELSE CrossingPasses(pass.nodes, adjacency, nodeLayers, iter + 1, st)

\* the passes iter, iter + 1, ... of reduceCrossings()
CrossingPasses(ns, adjacency, nodeLayers, iter, st) ==
    IF iter >= Setting(st, "maxIterations", 50) THEN ns
    ELSE AfterPass(ReorderLayers(ns, adjacency, nodeLayers, 1, FALSE, st),
             adjacency, nodeLayers, iter, st)

RECURSIVE CrossingPassCount(_, _, _, _, _)

\* the value of iter with which the loop of reduceCrossings() is left, or
\* iter + 1 when it is left by `break`: the number of passes made
PassCountAfter(pass, adjacency, nodeLayers, iter, st) ==
    IF ~pass.hasChanges THEN iter + 1
    ELSE CrossingPassCount(pass.nodes, adjacency, nodeLayers, iter + 1, st)

CrossingPassCount(ns, adjacency, nodeLayers, iter, st) ==
    IF iter >= Setting(st, "maxIterations", 50) THEN iter
    ELSE PassCountAfter(ReorderLayers(ns, adjacency, nodeLayers, 1, FALSE, st),
             adjacency, nodeLayers, iter, st)

ReduceCrossings(ns, adjacency, nodeLayers, st) ==
    IF ~Setting(st, "crossingReduction", TRUE) THEN ns
    ELSE CrossingPasses(ns, adjacency, nodeLayers, 0, st)

\* the node array after createLayeredLayout(nodes, links, settings)
LayeredNodes(ns, ls, st) ==
    LET adjacency == Adjacency(ns, ls)
        nodeLayers == AssignLayers(ns, adjacency)
    IN ReduceCrossings(PositionNodes(ns, nodeLayers, st), adjacency, nodeLayers, st)

CreateLayered ==
    /\ algorithm = "none"
    /\ IF nodes = <<>>
       THEN \* Array(maxLayer + 1) with maxLayer = Math.max() = -Infinity
            /\ result' = "RangeError"
            /\ UNCHANGED <<algorithm, nodes>>
       ELSE /\ algorithm' = "layered"
            /\ nodes' = LayeredNodes(nodes, links, settings)
            /\ UNCHANGED result
    /\ UNCHANGED <<links, settings, temperature, currentIteration, time, calls,
                   returnedFalse, host>>

\* the values of Date.now() * 0.0005 as angles, in units of 1/TrigScale
ClockAngles == {0, Pi \div 2, Pi + 1234, Pi + Pi \div 2}

\* one node after the body of nodes.forEach in step(); index counts from 0
BreatheNode(node, index, clock) ==
    LET breathe == MulTrig(2 * Scale, Sin(clock + index * (TrigScale \div 20)))
        originalRadius == Norm3(node.x, 0, node.z)
    IN IF originalRadius > 0
       THEN Merge(node, [x |-> node.x + TDiv(node.x * breathe, 20 * originalRadius),
                         z |-> node.z + TDiv(node.z * breathe, 20 * originalRadius)])
       ELSE node

\* handle.step() of the Layered layout
StepLayeredWithin(bound) ==
    /\ algorithm = "layered"
    /\ calls < bound
    /\ calls' = calls + 1
    /\ \E clock \in ClockAngles :
           nodes' = [i \in 1..Len(nodes) |-> BreatheNode(nodes[i], i - 1, clock)]
    /\ result' = "true"
    /\ returnedFalse' = returnedFalse
    /\ UNCHANGED <<algorithm, links, settings, temperature, currentIteration, time>>

StepLayered == StepLayeredWithin(MaxCalls) /\ UNCHANGED host

----------------------------------------------------------------------------
(* Graphs handed to the factories *)

MaxLinks == 3

NodeIds == <<"A", "B", "C", "D">>
GhostId == "Z"   \* an id that no node carries

\* the id lists: a prefix of NodeIds, with the falsy id "" in no place,
\* in the first or in the last
IdLists ==
    {[i \in 1..n |-> IF i = f THEN "" ELSE NodeIds[i]] :
        <<n, f>> \in {p \in (1..Len(NodeIds)) \X (0..Len(NodeIds)) :
                          p[2] \in {0, 1, p[1]}}}

\* the id lists with every id truthy
IdPrefixes == {ids \in IdLists : \A i \in 1..Len(ids) : Truthy(ids[i])}

\* every link whose ends are ids of the list or the ghost id, numbered
Ends(ids) == Append(ids, GhostId)
PairCount(ids) == Len(Ends(ids)) * Len(Ends(ids))
Pair(ids, p) ==
    [source |-> Ends(ids)[((p - 1) \div Len(Ends(ids))) + 1],
     target |-> Ends(ids)[((p - 1) % Len(Ends(ids))) + 1]]

\* lists of at most k link numbers in non-decreasing order (a link may repeat)
RECURSIVE PairLists(_, _)
PairLists(ids, k) ==
    IF k = 0 THEN {<<>>}
    ELSE LET shorter == PairLists(ids, k - 1)
         IN shorter \cup
            {Append(s, p) : <<s, p>> \in
                {sp \in shorter \X (1..PairCount(ids)) :
                    /\ Len(sp[1]) = k - 1
                    /\ sp[1] = <<>> \/ sp[1][Len(sp[1])] <= sp[2]}}

LinkLists(ids) ==
    {[k \in 1..Len(s) |-> Pair(ids, s[k])] : s \in PairLists(ids, MaxLinks)}

BareNodes(ids) == [i \in 1..Len(ids) |-> [id |-> ids[i]]]

NoSettings == [name \in {} |-> 0]

\* a handle that a caller other than the React host has made
NoHost == [mounted |-> FALSE]

InitHandle ==
    /\ algorithm = "none"
    /\ temperature = <<0, 1>>
    /\ currentIteration = 0
    /\ time = 0
    /\ result = "none"
    /\ calls = 0
    /\ returnedFalse = FALSE
    /\ host = NoHost

----------------------------------------------------------------------------
(* Spherical layout on every small graph *)

SphericalSettings == {NoSettings, [layerCount |-> 2], [layerCount |-> 3]}

InitSpherical ==
    /\ InitHandle
    /\ \E ids \in IdLists :
           /\ nodes = BareNodes(ids)
           /\ links \in LinkLists(ids)
    /\ settings \in SphericalSettings

NextSpherical == CreateSpherical

SpecSpherical == InitSpherical /\ [][NextSpherical]_vars

LayerCountOf(st) == Setting(st, "layerCount", 5)

\* the links as unordered pairs of ids
Edges(ls) == {{ls[k].source, ls[k].target} : k \in 1..Len(ls)}

NodeAt(id) == nodes[FindNode(nodes, id)]

StarGraph ==
    /\ IdsOf(nodes) = {"A", "B", "C", "D"}
    /\ Edges(links) = {{"A", "B"}, {"A", "C"}, {"A", "D"}}

\* C3: on the star graph with hub A linked to B, C and D the Spherical layout
\* gives A layer 0 and the origin, and B, C, D layer 1.
C3_StarHubLayerZero ==
    (algorithm = "spherical" /\ StarGraph) =>
        /\ NodeAt("A").layer = 0
        /\ NodeAt("A").x = 0 /\ NodeAt("A").y = 0 /\ NodeAt("A").z = 0
        /\ \A id \in {"B", "C", "D"} : NodeAt(id).layer = 1

\* ids within k hops of the hub, walking the undirected links between nodes
RECURSIVE Ball(_, _)
Ball(hub, k) ==
    IF k = 0 THEN {hub}
    ELSE LET inner == Ball(hub, k - 1)
         IN inner \cup
            {id \in IdsOf(nodes) : \E near \in inner : {near, id} \in Edges(links)}

Reachable(hub, id) == id \in Ball(hub, Len(nodes))
HopCount(hub, id) == CHOOSE k \in 0..Len(nodes) :
    id \in Ball(hub, k) /\ \A j \in 0..(k - 1) : id \notin Ball(hub, j)

HubId == nodes[CenterNode(nodes, links)].id

\* C4: every node but the hub gets layer min(hop count from the hub,
\* layerCount - 1) when the hub reaches it and layerCount - 1 when not.
C4_LayerIsHopCount ==
    algorithm = "spherical" =>
        \A i \in 1..Len(nodes) :
            nodes[i].id # HubId =>
                nodes[i].layer =
                    IF Reachable(HubId, nodes[i].id)
                    THEN Min(HopCount(HubId, nodes[i].id), LayerCountOf(settings) - 1)
                    ELSE LayerCountOf(settings) - 1

\* the same with every id truthy
C4_TruthyIds ==
    (\A i \in 1..Len(nodes) : Truthy(nodes[i].id)) => C4_LayerIsHopCount

----------------------------------------------------------------------------
(* Layered layout on every small directed graph *)

LayeredSettings == {NoSettings, [maxIterations |-> 1], [crossingReduction |-> FALSE]}

InitLayered ==
    /\ InitHandle
    /\ \E ids \in IdPrefixes :
           /\ nodes = BareNodes(ids)
           /\ links \in LinkLists(ids)
    /\ settings \in LayeredSettings

NextLayered == CreateLayered

SpecLayered == InitLayered /\ [][NextLayered]_vars

\* the graph of the nodes and of the links between them, and the layers
\* written on the nodes: id -> predecessor ids, id -> node.layer
PredsOf ==
    [id \in IdsOf(nodes) |->
        {links[k].source : k \in {k \in 1..Len(links) :
            links[k].target = id /\ links[k].source \in IdsOf(nodes)}}]

LayersOf == [id \in IdsOf(nodes) |-> NodeAt(id).layer]

ChainGraph ==
    /\ IdsOf(nodes) = {"A", "B", "C"}
    /\ {<<links[k].source, links[k].target>> : k \in 1..Len(links)}
           = {<<"A", "B">>, <<"B", "C">>}

\* C5 as stated: the directed chain A->B->C gets the layers {A:0, B:1, C:1}.
C5_ChainLayersAsStated ==
    (algorithm = "layered" /\ ChainGraph) =>
        LayersOf = [id \in {"A", "B", "C"} |-> IF id = "A" THEN 0 ELSE 1]

\* C5 amended: the directed chain A->B->C gets the layers {A:0, B:1, C:2}.
C5_ChainLayers ==
    (algorithm = "layered" /\ ChainGraph) =>
        LayersOf = [id \in {"A", "B", "C"} |->
                       IF id = "A" THEN 0 ELSE IF id = "B" THEN 1 ELSE 2]

C5_Witness == algorithm = "layered" /\ ChainGraph /\ NodeAt("C").layer = 2

\* the nodes on or behind a directed cycle: the ids of every set of nodes in
\* which each node has a predecessor in the set
Stuck(preds) ==
    UNION {S \in SUBSET DOMAIN preds : \A id \in S : preds[id] \cap S # {}}

\* the largest layer among the nodes S (S is not empty)
Deepest(layer, S) ==
    CHOOSE v \in {layer[id] : id \in S} : \A id \in S : layer[id] <= v

\* C6: on an acyclic directed graph every node without an incoming link has
\* layer 0 and every other node has layer 1 + the largest layer of its
\* predecessors.
C6_LongestPathLayering ==
    algorithm = "layered" =>
        \A preds \in {PredsOf} : \A layer \in {LayersOf} :
            Stuck(preds) = {} =>
                \A id \in DOMAIN preds :
                    layer[id] = IF preds[id] = {} THEN 0
                                ELSE 1 + Deepest(layer, preds[id])

\* an acyclic graph with a node two layers down that also has a predecessor
\* in layer 0
C6_Witness ==
    /\ algorithm = "layered"
    /\ \E preds \in {PredsOf} : \E layer \in {LayersOf} :
           /\ Stuck(preds) = {}
           /\ \E id \in DOMAIN preds :
                  layer[id] = 2 /\ \E p \in preds[id] : layer[p] = 0

\* C7 as stated: a node on or behind a cycle is put into the deepest layer
\* that the layering pass gave to any node.
C7_FallbackAsStated ==
    algorithm = "layered" =>
        \A preds \in {PredsOf} : \A layer \in {LayersOf} :
            \A stuck \in {Stuck(preds)} :
                stuck # DOMAIN preds =>
                    \A id \in stuck :
                        layer[id] = Deepest(layer, DOMAIN preds \ stuck)

\* C7 amended: a node on or behind a cycle is put one layer below the
\* deepest layer that the layering pass gave to any node, and into layer 0
\* when the pass layered no node; no node lies deeper.
C7_FallbackLayer ==
    algorithm = "layered" =>
        \A preds \in {PredsOf} : \A layer \in {LayersOf} :
            \A stuck \in {Stuck(preds)} :
                \A id \in stuck :
                    /\ layer[id] = IF stuck = DOMAIN preds THEN 0
                                   ELSE 1 + Deepest(layer, DOMAIN preds \ stuck)
                    /\ layer[id] = Deepest(layer, DOMAIN preds)

\* a node behind a cycle in layer 2, below a node that the pass put in layer 1
C7_Witness ==
    /\ algorithm = "layered"
    /\ \E preds \in {PredsOf} : \E layer \in {LayersOf} :
           \E stuck \in {Stuck(preds)} :
               /\ \E id \in stuck : layer[id] = 2
               /\ \E id \in DOMAIN preds \ stuck : layer[id] = 1

----------------------------------------------------------------------------
(* Annealing layout on small graphs *)

MaxPhysicsNodes == 2

\* where a node handed to a force layout may lie (units of 1/Scale):
\* the origin, a point inside the Annealing soft bound and one beyond it
StartPoints ==
    {[x |-> 0, y |-> 0, z |-> 0],
     [x |-> 1000, y |-> 0, z |-> 0],
     [x |-> 3000, y |-> -4000, z |-> 6000]}

\* node arrays: every node on a start point (two nodes may share one) or,
\* from the second node on, bare in place of the origin
PhysicsNodes ==
    UNION {{[i \in 1..n |-> IF at[i] = Zero3 /\ i > 1 THEN [id |-> NodeIds[i]]
                            ELSE Merge([id |-> NodeIds[i]], at[i])] :
               at \in [1..n -> StartPoints]} : n \in 1..MaxPhysicsNodes}

PhysicsLinks ==
    {<<>>,
     <<[source |-> "A", target |-> "B"]>>,
     <<[source |-> "A", target |-> "B"], [source |-> "B", target |-> GhostId],
       [source |-> "A", target |-> "A"]>>}

FRSettings ==
    {NoSettings,
     [iterations |-> 0],
     [iterations |-> 1, coolingRate |-> <<9, 10>>],
     [iterations |-> 3, coolingRate |-> <<9, 10>>],
     [initialTemperature |-> <<2, 100>>, coolingRate |-> <<1, 2>>],
     [initialTemperature |-> <<1, 100>>, coolingRate |-> <<9, 10>>],
     [initialTemperature |-> <<1, 200>>, coolingRate |-> <<9, 10>>],
     [volume |-> <<200000, 1>>, coolingRate |-> <<9, 10>>,
      gravitationalConstant |-> <<5, 100>>]}

InitFR ==
    /\ InitHandle
    /\ nodes \in PhysicsNodes
    /\ links \in PhysicsLinks
    /\ settings \in FRSettings

NextFR == CreateFruchtermanReingold \/ StepFruchtermanReingold

SpecFR == InitFR /\ [][NextFR]_vars

Annealing == algorithm = "fruchterman-reingold-3d"

IterationsOf == Setting(settings, "iterations", 100)

CoolingRateOf == Setting(settings, "coolingRate", <<95, 100>>)

\* C1 (as stated): once step() has returned false, every later step() call
\* returns false and changes no node, not the temperature and not the
\* iteration count
C1_FalseIsFinal ==
    [][(Annealing /\ returnedFalse)
         => (result' = "false" /\ UNCHANGED <<nodes, temperature, currentIteration>>)]_vars

\* C8: a step() call that runs the simulation multiplies the temperature by
\* coolingRate exactly once and never raises it; a call that does not run it
\* leaves the temperature alone
C8_CoolsOncePerStep ==
    [][(Annealing /\ calls' = calls + 1)
         => IF currentIteration' = currentIteration + 1
            THEN /\ temperature' = OnGrid(RatMul(temperature, CoolingRateOf))
                 /\ RatLeq(temperature', temperature)
            ELSE /\ currentIteration' = currentIteration
                 /\ temperature' = temperature]_vars

\* two simulated steps from the default start temperature 10 at the default
\* coolingRate 0.95: 10 * 0.95 * 0.95 = 9.025
C8_Witness ==
    /\ Annealing
    /\ settings = NoSettings
    /\ currentIteration = 2
    /\ temperature = <<361, 40>>

\* C9: step() returns false on the call in which the iteration count reaches
\* `iterations` or the temperature falls below 0.01, and so it has returned
\* false once max(iterations, 1) calls are made
C9_Terminates ==
    /\ [][(Annealing /\ calls' = calls + 1
             /\ (currentIteration' >= IterationsOf \/ RatLess(temperature', Threshold)))
            => result' = "false"]_vars
    /\ []((Annealing /\ calls >= Max(IterationsOf, 1)) => returnedFalse)

\* the third of three budgeted iterations has run with the temperature still
\* above the threshold, and the call returned false
C9_Witness ==
    /\ Annealing
    /\ IterationsOf = 3
    /\ calls = 3
    /\ currentIteration = 3
    /\ RatLess(Threshold, temperature)
    /\ result = "false"

\* the distance between two positions of a node, to the unit 1/Scale
Moved(old, new) == Norm3(new.x - old.x, new.y - old.y, new.z - old.z)

\* C10 (as stated): in one step() the distance between a node's position
\* before and after the step is at most the temperature at the start of the
\* step, soft bounding included
C10_MovesWithinTemperature ==
    [][Annealing
         => \A i \in 1..Len(nodes) : Moved(nodes[i], nodes'[i]) <= RatToFixed(temperature)]_vars

\* the coordinates that soft bounding turns into c
BeforeBound(c, maxBound) ==
    {v \in {c} \cup (((10 * c) \div 9 - 2)..((10 * c) \div 9 + 2)) :
        SoftBound(v, maxBound) = c}

\* C10: in one step() a node either stays or goes to a point no farther from
\* its old position than the temperature at the start of the step, and what
\* the step stores is that point after soft bounding
C10_ForceMoveWithinTemperature ==
    [][Annealing
         => \A maxBound \in {CbrtFixed(FRVolume(settings)) \div 2} :
            \A i \in 1..Len(nodes) :
               \/ Moved(nodes[i], nodes'[i]) = 0
               \/ \E px \in BeforeBound(nodes'[i].x, maxBound) :
                  \E py \in BeforeBound(nodes'[i].y, maxBound) :
                  \E pz \in BeforeBound(nodes'[i].z, maxBound) :
                     Moved(nodes[i], [x |-> px, y |-> py, z |-> pz])
                         <= RatToFixed(temperature)]_vars

\* a step has run in which the force on a node was longer than any start
\* temperature (10), and a coordinate of the node was soft-bounded
C10_Witness ==
    /\ Annealing
    /\ currentIteration = 1
    /\ \E i \in 1..Len(nodes) :
          /\ "fx" \in DOMAIN nodes[i]
          /\ Norm3(nodes[i].fx, nodes[i].fy, nodes[i].fz) > 10 * Scale
          /\ nodes[i].z = 5400

----------------------------------------------------------------------------
(* Baseline layout on small graphs *)

\* node arrays: those of PhysicsNodes, and one node 50 from the center, at
\* rest or already moving
BaselineNodes ==
    PhysicsNodes
        \cup {<<[id |-> "A", x |-> 5000, y |-> 0, z |-> 0]>>,
              <<[id |-> "A", x |-> 5000, y |-> 0, z |-> 0,
                 vx |-> 2000, vy |-> 0, vz |-> 0]>>,
              <<[id |-> "A", x |-> 5000], [id |-> "B", x |-> 5000, y |-> 0, z |-> 0]>>,
              \* no node at all
              <<>>,
              \* a node outside the box of side 2000, and one that leaves it
              <<[id |-> "A", x |-> 150000, y |-> -150000, z |-> 0]>>,
              <<[id |-> "A", x |-> 0, y |-> -99900, z |-> 99900,
                 vx |-> 0, vy |-> -2000, vz |-> 2000]>>}

\* the factory's defaults, the registry's defaults, and single changes
BaselineSettings ==
    {NoSettings,
     [repulsiveStrength |-> <<800, 1>>, attractiveStrength |-> <<1, 10>>,
      linkDistance |-> <<150, 1>>, dampingFactor |-> <<9, 10>>,
      centeringStrength |-> <<2, 100>>, maxVelocity |-> <<10, 1>>],
     [centeringStrength |-> <<2, 100>>],
     [attractiveStrength |-> <<1, 2>>, maxVelocity |-> <<1, 1>>],
     [centeringStrength |-> <<1, 10>>, maxVelocity |-> <<1, 20>>]}

InitBaseline ==
    /\ InitHandle
    /\ nodes \in BaselineNodes
    /\ links \in PhysicsLinks
    /\ settings \in BaselineSettings

NextBaseline == CreateForceDirected \/ StepForceDirected

SpecBaseline == InitBaseline /\ [][NextBaseline]_vars

\* C2 (as stated): once step() of the Baseline layout has returned false,
\* every later step() call on the handle returns false
C2_SettledIsFinal ==
    [][(algorithm = "3d-force-directed" /\ returnedFalse) => result' = "false"]_vars

Baseline == algorithm = "3d-force-directed"

\* C11: after one or more step() calls of the Baseline layout every node
\* coordinate lies in [-1000, 1000]
C11_WithinBounds ==
    (Baseline /\ calls >= 1)
        => \A i \in 1..Len(nodes) :
              /\ Abs(nodes[i].x) <= 1000 * Scale
              /\ Abs(nodes[i].y) <= 1000 * Scale
              /\ Abs(nodes[i].z) <= 1000 * Scale

\* the node that started outside the box on two axes has been stepped and
\* lies on the faces x = 1000 and y = -1000
C11_Witness ==
    /\ Baseline
    /\ calls = 1
    /\ Len(nodes) = 1
    /\ nodes[1].x = 1000 * Scale
    /\ nodes[1].y = -(1000 * Scale)

\* the force a step() call has stored on a node
StoredForce(node) == [x |-> node.fx, y |-> node.fy, z |-> node.fz]

\* the velocity a node carries
StoredVelocity(node) == [x |-> node.vx, y |-> node.vy, z |-> node.vz]

\* C12: step() of the Baseline layout returns true exactly when, for some
\* node, the magnitude of the velocity after the update
\* (v + f * 0.1) * dampingFactor exceeds 0.1, and false otherwise (false for
\* an empty node list)
C12_TrueWhileMoving ==
    [][(Baseline /\ calls' = calls + 1)
         => (result' = "true"
               <=> \E i \in 1..Len(nodes) :
                      SpeedSquared(DampedVelocity(nodes[i], StoredForce(nodes'[i]),
                                                  settings))
                          > (Scale \div 10) * (Scale \div 10))]_vars

\* step() has returned true with one node faster than 0.1 and another one
\* not
C12_Witness ==
    /\ Baseline
    /\ calls >= 1
    /\ result = "true"
    /\ \E i, j \in 1..Len(nodes) :
          /\ SpeedSquared(StoredVelocity(nodes[i])) > (Scale \div 10) * (Scale \div 10)
          /\ SpeedSquared(StoredVelocity(nodes[j])) <= (Scale \div 10) * (Scale \div 10)

----------------------------------------------------------------------------
(* The two force layouts side by side *)

\* the factories' defaults, and settings that change the force coefficients
\* of both layouts
ForceSettings ==
    {NoSettings,
     [attractiveStrength |-> <<1, 2>>, maxVelocity |-> <<1, 1>>,
      volume |-> <<200000, 1>>, coolingRate |-> <<9, 10>>,
      gravitationalConstant |-> <<5, 100>>]}

InitForces ==
    /\ InitHandle
    /\ nodes \in BaselineNodes
    /\ links \in PhysicsLinks
    /\ settings \in ForceSettings

NextForces ==
    \/ CreateForceDirected
    \/ StepForceDirected
    \/ CreateFruchtermanReingold
    \/ StepFruchtermanReingold

SpecForces == InitForces /\ [][NextForces]_vars

\* a Baseline step() call, and an Annealing step() call that ran the
\* simulation
BaselineStep == Baseline /\ calls' = calls + 1
AnnealingStep == Annealing /\ currentIteration' = currentIteration + 1

RECURSIVE SumOver(_, _)
SumOver(f, S) ==
    IF S = {} THEN Zero3
    ELSE LET i == CHOOSE i \in S : TRUE
         IN Add3(f[i], SumOver(f, S \ {i}))

\* what repulsion and attraction put on each node in the step: the stored
\* force less the centering (gravity) term of the node
PairwiseForces ==
    [i \in 1..Len(nodes) |->
        Sub3(StoredForce(nodes'[i]),
             IF Baseline THEN BaselineCentering(nodes[i], settings)
             ELSE FRGravity(nodes[i], settings))]

\* C13: in every step of the Baseline and Annealing layouts the forces of
\* repulsion and attraction sum to zero over the nodes in each axis
C13_ForcesCancel ==
    [][(BaselineStep \/ AnnealingStep)
         => SumOver(PairwiseForces, 1..Len(nodes)) = Zero3]_vars

\* a step has put a force on two linked nodes that lie apart
C13_Witness ==
    /\ Baseline \/ Annealing
    /\ calls = 1
    /\ Len(nodes) = 2
    /\ Len(links) = 1
    /\ "fx" \in DOMAIN nodes[1]
    /\ StoredForce(nodes[1]) # Zero3
    /\ StoredForce(nodes[2]) # Zero3
    /\ StoredForce(nodes[1]) # StoredForce(nodes[2])

Position(node) == [x |-> node.x, y |-> node.y, z |-> node.z]

\* C14 (as stated): when two nodes have the same position, a step gives both
\* a non-zero repulsive force, opposite to each other
C14_CoincidentRepel ==
    [][((BaselineStep \/ AnnealingStep) /\ Len(nodes) = 2
          /\ Position(nodes[1]) = Position(nodes[2]))
         => /\ PairwiseForces[1] # Zero3
            /\ PairwiseForces[1] = Neg3(PairwiseForces[2])]_vars

\* C15: a link whose source or target matches no node contributes no force:
\* a step leaves the nodes where the same step with those links removed
\* leaves them
C15_DanglingLinksSkipped ==
    [][/\ BaselineStep
          => \A forces \in {BaselineForces(nodes, Resolvable(nodes, links), settings)} :
                nodes' = [i \in 1..Len(nodes) |->
                             Integrate(nodes[i], forces[i], settings)]
       /\ AnnealingStep
          => \A forces \in {FRForces(nodes, Resolvable(nodes, links), settings)} :
                nodes' = [i \in 1..Len(nodes) |->
                             FRApply(nodes[i], forces[i], temperature, settings)]]_vars

\* a step has moved two nodes of a graph that has a link to a missing node
C15_Witness ==
    /\ Baseline \/ Annealing
    /\ calls = 1
    /\ Len(nodes) = 2
    /\ \E k \in 1..Len(links) : links[k].target = GhostId
    /\ "fx" \in DOMAIN nodes[1]
    /\ StoredForce(nodes[1]) # Zero3
    /\ StoredForce(nodes[2]) # Zero3

----------------------------------------------------------------------------
(* The four registered layouts on nodes that carry only an id *)

RegistryIds == {<<>>, <<"A">>, <<"A", "B">>}

RegistryLinks ==
    PhysicsLinks
        \cup {<<[source |-> "A", target |-> "B"], [source |-> "B", target |-> "A"]>>}

\* the defaults that LAYOUT_ALGORITHMS gives to the settings of each layout
RegistryDefaults ==
    [repulsiveStrength |-> <<800, 1>>, attractiveStrength |-> <<1, 10>>,
     linkDistance |-> <<150, 1>>, dampingFactor |-> <<9, 10>>,
     centeringStrength |-> <<2, 100>>, maxVelocity |-> <<10, 1>>,
     volume |-> <<1000000, 1>>, iterations |-> 100, coolingRate |-> <<95, 100>>,
     gravitationalConstant |-> <<1, 100>>,
     radius |-> <<400, 1>>, layerCount |-> 5, densityAdjustment |-> <<12, 10>>,
     rotationSpeed |-> <<5, 1000>>, levelSeparation |-> <<8, 10>>,
     layerHeight |-> <<200, 1>>, nodeSpacing |-> <<100, 1>>,
     layerSpacing |-> <<300, 1>>, maxIterations |-> 50]

InitRegistry ==
    /\ InitHandle
    /\ \E ids \in RegistryIds : nodes = BareNodes(ids)
    /\ links \in RegistryLinks
    /\ settings \in {NoSettings, RegistryDefaults}

NextRegistry ==
    \/ CreateForceDirected
    \/ StepForceDirected
    \/ CreateFruchtermanReingold
    \/ StepFruchtermanReingold
    \/ CreateSpherical
    \/ StepSpherical
    \/ CreateLayered
    \/ StepLayered

SpecRegistry == InitRegistry /\ [][NextRegistry]_vars

Animated == algorithm \in {"spherical", "layered"}

\* C16: step() of the Spherical and of the Layered layout returns true on
\* every call, so no call on such a handle has ever returned false
C16_AlwaysTrue ==
    /\ [][(Animated /\ calls' = calls + 1) => result' = "true"]_vars
    /\ [](Animated => ~returnedFalse)

\* three step() calls have been made on a handle of one of the two layouts
\* and the last one, which moved a node, returned true
C16_Witness ==
    /\ Animated
    /\ calls = 3
    /\ result = "true"
    /\ \E i \in 1..Len(nodes) : nodes[i].x # 0 /\ nodes[i].z # 0

\* C17: create() and step() of each registered layout leave the links as
\* they are, add and remove no node and change no node id
C17_LinksAndIdsKept ==
    [][/\ links' = links
       /\ Len(nodes') = Len(nodes)
       /\ \A i \in 1..Len(nodes) :
             "id" \in DOMAIN nodes'[i] /\ nodes'[i].id = nodes[i].id]_vars

\* two step() calls have been made on a graph of two nodes and three links,
\* and the nodes lie apart
C17_Witness ==
    /\ algorithm # "none"
    /\ calls = 2
    /\ Len(nodes) = 2
    /\ Len(links) = 3
    /\ Position(nodes[1]) # Position(nodes[2])

\* C18 (as stated): once create() of a registered layout has run on nodes
\* that carry only an id, every node has x, y, z, vx, vy and vz, also after
\* every step()
C18_FieldsDefined ==
    algorithm # "none"
        => \A i \in 1..Len(nodes) :
              {"x", "y", "z", "vx", "vy", "vz"} \subseteq DOMAIN nodes[i]

\* the same for every layout but the Annealing one, which holds
C18_ExceptAnnealing == Annealing \/ C18_FieldsDefined

----------------------------------------------------------------------------
(* The hub of the Spherical layout, with and without a hub named in the
   settings *)

HubSettings == {NoSettings, [centerNodeId |-> "B"]}

InitHub ==
    /\ InitHandle
    /\ \E ids \in IdLists :
           /\ nodes = BareNodes(ids)
           /\ links \in LinkLists(ids)
    /\ settings \in HubSettings

NextHub == CreateSpherical

SpecHub == InitHub /\ [][NextHub]_vars

\* the number of link ends that carry the id
Degree(id) ==
    Cardinality({e \in (1..Len(links)) \X {"source", "target"} : links[e[1]][e[2]] = id})

HighestDegree(i) == \A j \in 1..Len(nodes) : Degree(nodes[j].id) <= Degree(nodes[i].id)

\* C19 (as stated): the hub is the node whose id the settings name when they
\* name one, and a node of highest degree otherwise
C19_HubAsStated ==
    algorithm = "spherical"
        => \A hub \in {CenterNode(nodes, links)} :
              IF "centerNodeId" \in DOMAIN settings
                     /\ FindNode(nodes, settings.centerNodeId) # 0
              THEN nodes[hub].id = settings.centerNodeId
              ELSE HighestDegree(hub)

\* C19: whatever the settings hold, the hub is the first node in node order
\* among those of highest degree
C19_FirstOfHighestDegree ==
    algorithm = "spherical"
        => \A hub \in {CenterNode(nodes, links)} :
              /\ HighestDegree(hub)
              /\ \A j \in 1..(hub - 1) : ~HighestDegree(j)

\* the settings name the node B, B is a node, and the hub is a later node
\* of higher degree
C19_Witness ==
    /\ algorithm = "spherical"
    /\ "centerNodeId" \in DOMAIN settings
    /\ FindNode(nodes, settings.centerNodeId) = 2
    /\ CenterNode(nodes, links) > 2
    /\ "targetX" \in DOMAIN nodes[1]

----------------------------------------------------------------------------
(* The Baseline layout run to rest: registry default settings, no links *)

MaxSettleCalls == 300

InitSettle ==
    /\ InitHandle
    /\ \E ids \in RegistryIds : nodes = BareNodes(ids)
    /\ links = <<>>
    /\ settings = RegistryDefaults

StepToRest == StepForceDirectedWithin(MaxSettleCalls) /\ UNCHANGED host

NextSettle ==
    \/ CreateForceDirected
    \/ StepToRest

SpecSettle == InitSettle /\ [][NextSettle]_vars

\* C20: with the registry default settings and no links, by the time step()
\* of the Baseline layout has been called MaxSettleCalls times it has returned
\* false at least once, from every start layout
C20_FalseWithinBound ==
    (Baseline /\ calls = MaxSettleCalls) => returnedFalse

\* two nodes scattered to different points, all the calls made, the last one
\* returning false
C20_Witness ==
    /\ Baseline
    /\ calls = MaxSettleCalls
    /\ result = "false"
    /\ Len(nodes) = 2
    /\ Position(nodes[1]) # Position(nodes[2])

----------------------------------------------------------------------------
(* Self-loops in the Baseline and Annealing layouts *)

NoSelfLoops(ls) == SelectSeq(ls, LAMBDA l : l.source # l.target)

----------------------------------------------------------------------------
(* The algorithm registry *)

\* Parameter with min and max exchanged
ParameterSwapped(min, max, default, step) ==
    [min |-> max, max |-> min, default |-> default, step |-> step]

\* { min, max, default, step } of one declared setting, as rationals
Parameter(min, max, default, step) ==
    [min |-> min, max |-> max, default |-> default, step |-> step]

LAYOUT_ALGORITHMS ==
    [key \in {"3d-force-directed", "fruchterman-reingold-3d", "spherical", "layered"} |->
        CASE key = "3d-force-directed" ->
               [create |-> "create3DForceDirectedLayout",
                settings |->
                    [repulsiveStrength |-> Parameter(<<200, 1>>, <<2000, 1>>, <<800, 1>>, <<50, 1>>),
                     attractiveStrength |-> Parameter(<<1, 100>>, <<1, 2>>, <<1, 10>>, <<1, 100>>),
                     linkDistance |-> Parameter(<<50, 1>>, <<400, 1>>, <<150, 1>>, <<10, 1>>),
                     dampingFactor |-> Parameter(<<8, 10>>, <<99, 100>>, <<9, 10>>, <<1, 100>>),
                     centeringStrength |-> Parameter(<<1, 1000>>, <<1, 10>>, <<2, 100>>, <<1, 1000>>),
                     maxVelocity |-> Parameter(<<1, 1>>, <<50, 1>>, <<10, 1>>, <<1, 1>>)]]
          [] key = "fruchterman-reingold-3d" ->
               [create |-> "createFruchtermanReingold3DLayout",
                settings |->
                    [volume |-> Parameter(<<200000, 1>>, <<5000000, 1>>, <<1000000, 1>>, <<100000, 1>>),
                     iterations |-> Parameter(<<20, 1>>, <<200, 1>>, <<100, 1>>, <<10, 1>>),
                     coolingRate |-> Parameter(<<9, 10>>, <<99, 100>>, <<95, 100>>, <<1, 100>>),
                     gravitationalConstant |-> Parameter(<<1, 1000>>, <<5, 100>>, <<1, 100>>, <<1, 1000>>)]]
          [] key = "spherical" ->
               [create |-> "createSphericalLayout",
                settings |->
                    [radius |-> Parameter(<<200, 1>>, <<800, 1>>, <<400, 1>>, <<25, 1>>),
                     layerCount |-> Parameter(<<3, 1>>, <<10, 1>>, <<5, 1>>, <<1, 1>>),
                     densityAdjustment |-> Parameter(<<5, 10>>, <<2, 1>>, <<12, 10>>, <<1, 10>>),
                     rotationSpeed |-> Parameter(<<1, 1000>>, <<2, 100>>, <<5, 1000>>, <<1, 1000>>),
                     levelSeparation |-> Parameter(<<3, 10>>, <<15, 10>>, <<8, 10>>, <<1, 10>>)]]
          [] key = "layered" ->
               [create |-> "createLayeredLayout",
                settings |->
                    [layerHeight |-> Parameter(<<100, 1>>, <<500, 1>>, <<200, 1>>, <<25, 1>>),
                     nodeSpacing |-> Parameter(<<50, 1>>, <<200, 1>>, <<100, 1>>, <<10, 1>>),
                     layerSpacing |-> Parameter(<<100, 1>>, <<500, 1>>, <<300, 1>>, <<25, 1>>),
                     maxIterations |-> Parameter(<<10, 1>>, <<100, 1>>, <<50, 1>>, <<5, 1>>)]]]

\* the exported factories
Factories ==
    {"create3DForceDirectedLayout", "createFruchtermanReingold3DLayout",
     "createSphericalLayout", "createLayeredLayout"}

\* the settings that the factories read as whole numbers
WholeSettings == {"iterations", "layerCount", "maxIterations"}

\* the declared default of a setting, in the form the factory reads it
Declared(key, name) ==
    IF name \in WholeSettings
    THEN LAYOUT_ALGORITHMS[key].settings[name].default[1]
             \div LAYOUT_ALGORITHMS[key].settings[name].default[2]
    ELSE Rat(LAYOUT_ALGORITHMS[key].settings[name].default[1],
             LAYOUT_ALGORITHMS[key].settings[name].default[2])

Bounded(parameter) ==
    /\ RatLeq(parameter.min, parameter.default)
    /\ RatLeq(parameter.default, parameter.max)
    /\ parameter.step[1] > 0
    /\ parameter.step[2] > 0

\* C22: every registry key maps to a factory and to parameters with
\* min <= default <= max and step > 0, and the key of every handle is a
\* registry key
C22_RegistryBounded ==
    /\ algorithm # "none" => algorithm \in DOMAIN LAYOUT_ALGORITHMS
    /\ \A key \in DOMAIN LAYOUT_ALGORITHMS :
          /\ LAYOUT_ALGORITHMS[key].create \in Factories
          /\ \A name \in DOMAIN LAYOUT_ALGORITHMS[key].settings :
                Bounded(LAYOUT_ALGORITHMS[key].settings[name])

\* a layout made through the registry runs with every declared default of
\* its registry entry as its settings
C22_Witness ==
    /\ algorithm \in DOMAIN LAYOUT_ALGORITHMS
    /\ calls = 1
    /\ settings # NoSettings
    /\ \A name \in DOMAIN LAYOUT_ALGORITHMS[algorithm].settings :
          /\ name \in DOMAIN settings
          /\ settings[name] = Declared(algorithm, name)

\* the settings completed with the declared defaults of the registry entry
WithDeclared(key, st) ==
    Merge([name \in DOMAIN LAYOUT_ALGORITHMS[key].settings |-> Declared(key, name)], st)

\* with the settings given, the Annealing, Spherical and Layered factories
\* lay the nodes out as with the settings completed by the declared defaults
C24_OthersSubstituted ==
    [][/\ AnnealingStep
          => \A full \in {WithDeclared("fruchterman-reingold-3d", settings)} :
                nodes' = [i \in 1..Len(nodes) |->
                             FRApply(nodes[i], FRForces(nodes, links, full)[i],
                                     temperature, full)]
       /\ (algorithm = "none" /\ algorithm' = "spherical")
          => nodes' = SphericalNodes(nodes, links, WithDeclared("spherical", settings))
       /\ (algorithm = "none" /\ algorithm' = "layered")
          => nodes' = LayeredNodes(nodes, links, WithDeclared("layered", settings))]_vars

\* C24 (as stated): for each registered layout, a setting left out of the
\* settings acts as the default the registry declares for it: every layout
\* computes what it computes with the declared defaults filled in
C24_DefaultsSubstituted ==
    /\ C24_OthersSubstituted
    /\ [][BaselineStep
            => \A full \in {WithDeclared("3d-force-directed", settings)} :
                  nodes' = [i \in 1..Len(nodes) |->
                               Integrate(nodes[i],
                                         BaselineForces(nodes, links, full)[i],
                                         full)]]_vars

----------------------------------------------------------------------------
(* The layer groups of the Spherical and Layered layouts *)

LayerSettings == {[layerCount |-> 2]}

InitLayers ==
    /\ InitHandle
    /\ \E ids \in IdPrefixes :
           /\ nodes = BareNodes(ids)
           /\ links \in LinkLists(ids)
    /\ settings \in LayerSettings

NextLayers == CreateSpherical \/ CreateLayered

SpecLayers == InitLayers /\ [][NextLayers]_vars

\* the layer groups of the Spherical layout: `layers`, as sequences of node
\* indexes
LayersFrom(layerOf) ==
    [l \in 0..(LayerCountOf(settings) - 1) |-> SphericalLayer(nodes, layerOf, l)]

LayerIndexesFrom(distances) ==
    [i \in 1..Len(nodes) |->
        SphericalLayerIndex(distances, nodes[i].id, LayerCountOf(settings))]

SphericalGroups ==
    {LayersFrom(layerOf) :
        layerOf \in {LayerIndexesFrom(distances) :
            distances \in {CalculateDistances(nodes, links, HubId)}}}

\* the layer groups of the Layered layout: `layerGroups`
LayerGroupsFrom(nodeLayers, maxLayer) ==
    [l \in 0..maxLayer |-> LayerGroup(nodes, nodeLayers, l)]

LayeredGroups ==
    UNION {{LayerGroupsFrom(nodeLayers, maxLayer) : maxLayer \in {MaxOf(nodeLayers)}} :
        nodeLayers \in {AssignLayers(nodes, Adjacency(nodes, links))}}

\* node i is once in the group of its layer index and in no other group
InOneGroup(groups, i) ==
    /\ "layer" \in DOMAIN nodes[i]
    /\ nodes[i].layer \in DOMAIN groups
    /\ \A l \in DOMAIN groups :
          Cardinality({k \in 1..Len(groups[l]) : groups[l][k] = i})
              = IF l = nodes[i].layer THEN 1 ELSE 0

\* C25: once the Spherical or the Layered layout is created, every node is
\* in exactly one layer group, the one of the layer index it carries, and
\* that index is within 0..layerCount-1 (Spherical) or 0..maxLayer (Layered)
C25_OneLayerGroup ==
    /\ algorithm = "spherical"
          => \A groups \in SphericalGroups :
                \A i \in 1..Len(nodes) : InOneGroup(groups, i)
    /\ algorithm = "layered"
          => \A groups \in LayeredGroups :
                \A i \in 1..Len(nodes) : InOneGroup(groups, i)

\* a Layered layout of a graph with the cycle A -> B -> A, fed from C, and
\* the lone node D: the cycle is in layer 1, C and D are in layer 0
C25_Witness ==
    /\ algorithm = "layered"
    /\ Len(nodes) = 4
    /\ links = <<[source |-> "A", target |-> "B"],
                 [source |-> "B", target |-> "A"],
                 [source |-> "C", target |-> "A"]>>
    /\ nodes[1].layer = 1 /\ nodes[2].layer = 1
    /\ nodes[3].layer = 0 /\ nodes[4].layer = 0

----------------------------------------------------------------------------
(* The crossing reduction of the Layered layout *)

\* the default budget of passes, and a budget of one pass
CrossingSettings == {NoSettings, [maxIterations |-> 1]}

\* the graphs whose links all join nodes
InitCrossing ==
    /\ InitHandle
    /\ \E ids \in IdPrefixes :
           /\ nodes = BareNodes(ids)
           /\ links \in {ls \in LinkLists(ids) :
                            \A k \in 1..Len(ls) :
                                ls[k].source # GhostId /\ ls[k].target # GhostId}
    /\ settings \in CrossingSettings

NextCrossing == CreateLayered

SpecCrossing == InitCrossing /\ [][NextCrossing]_vars

\* reduceCrossings() makes at least one pass
Reducing ==
    /\ algorithm = "layered"
    /\ Setting(settings, "crossingReduction", TRUE)
    /\ Setting(settings, "maxIterations", 50) >= 1

\* the passes stop within the budget, and before it only on a pass that
\* moves no node
StopsInBudget(adjacency, nodeLayers, positioned) ==
    \A passes \in {CrossingPassCount(positioned, adjacency, nodeLayers, 0, settings)} :
        /\ passes <= Setting(settings, "maxIterations", 50)
        /\ passes < Setting(settings, "maxIterations", 50)
              => ~ReorderLayers(nodes, adjacency, nodeLayers, 1, FALSE,
                                settings).hasChanges

\* node i differs from the node positionNodes() left in x and z at most, and
\* in nothing when it is in layer 0
OnlyXZChanged(positioned, i) ==
    /\ DOMAIN nodes[i] = DOMAIN positioned[i]
    /\ \A field \in DOMAIN nodes[i] \ {"x", "z"} : nodes[i][field] = positioned[i][field]
    /\ nodes[i].layer = 0 => nodes[i] = positioned[i]

\* every slot of the circle of the layer group holds exactly one of its nodes
OnSlots(group) ==
    \A index \in 0..(Len(group) - 1) :
        \A slot \in {Slot(index, Len(group), settings)} :
            Cardinality({k \in 1..Len(group) :
                nodes[group[k]].x = slot.x /\ nodes[group[k]].z = slot.z}) = 1

ReducedFrom(adjacency, nodeLayers, positioned) ==
    /\ StopsInBudget(adjacency, nodeLayers, positioned)
    /\ \A i \in 1..Len(nodes) : OnlyXZChanged(positioned, i)
    /\ \A layer \in 1..MaxOf(nodeLayers) : OnSlots(LayerGroup(nodes, nodeLayers, layer))

\* C26: when the crossing reduction of the Layered layout runs, it makes at
\* most maxIterations passes and fewer only when a pass moves no node; it
\* changes x and z of nodes in layers 1 and deeper only; every such layer has
\* its nodes on the evenly spaced slots of its circle, one node per slot; y,
\* layer index and every other field are as positionNodes() left them
C26_CrossingReduction ==
    Reducing
        => \A adjacency \in {Adjacency(nodes, links)} :
              \A nodeLayers \in {AssignLayers(nodes, adjacency)} :
                  ReducedFrom(adjacency, nodeLayers,
                              PositionNodes(nodes, nodeLayers, settings))

\* the default budget of passes; two nodes of one deeper layer were moved
\* from the slots positionNodes() gave them to each other's
C26_Witness ==
    /\ Reducing
    /\ settings = NoSettings
    /\ \E i, j \in 1..Len(nodes) :
          /\ i # j
          /\ nodes[i].layer = nodes[j].layer
          /\ nodes[i].layer >= 1
          /\ \A positioned \in {PositionNodes(nodes,
                                   AssignLayers(nodes, Adjacency(nodes, links)),
                                   settings)} :
                /\ nodes[i].x = positioned[j].x /\ nodes[i].z = positioned[j].z
                /\ nodes[j].x = positioned[i].x /\ nodes[j].z = positioned[i].z

----------------------------------------------------------------------------
(* The registered layouts on an empty graph *)

\* C30 (as stated): on an empty node list with an empty link list, create()
\* and step() of each registered layout complete without an error
C30_EmptyGraphHandled ==
    (nodes = <<>> /\ links = <<>>) => result \in {"none", "true", "false"}

----------------------------------------------------------------------------
(* The React host: App, ControlPanel and NetworkGraph3D around one handle *)

MaxFrames == 22   \* step() calls that the frames make on an Annealing handle,
                  \* MaxCalls on any other
MaxEvents == 1    \* user events after the first load: further loads, algorithm
                  \* and settings changes, restarts

\* a declared value in the form the factory reads it
Read(name, q) == IF name \in WholeSettings THEN q[1] \div q[2] ELSE Rat(q[1], q[2])

\* App: settings[key] = config.default for every declared setting
DefaultSettings(key) ==
    [name \in DOMAIN LAYOUT_ALGORITHMS[key].settings |-> Declared(key, name)]

\* the slider that the user moves, one for each layout
Slider(key) ==
    CASE key = "3d-force-directed" -> "maxVelocity"
      [] key = "fruchterman-reingold-3d" -> "iterations"
      [] key = "spherical" -> "layerCount"
      [] key = "layered" -> "layerHeight"

\* the values the user moves it to: its minimum and its default
SliderValues(key) ==
    {Read(Slider(key), LAYOUT_ALGORITHMS[key].settings[Slider(key)].min),
     Read(Slider(key), LAYOUT_ALGORITHMS[key].settings[Slider(key)].default)}

\* the parsed network files
NetworkData ==
    {[nodes |-> <<[id |-> "A", x |-> 0, y |-> 0, z |-> 0]>>, links |-> <<>>],
     [nodes |-> <<[id |-> "A", x |-> 50 * Scale, y |-> 0, z |-> 0]>>, links |-> <<>>]}

NoData == [nodes |-> <<>>, links |-> <<>>]

\* useFrame: `!shouldContinue && !isAtEquilibrium`
NotifiesStale(shouldContinue, isAtEquilibrium) == ~shouldContinue
Notifies(shouldContinue, isAtEquilibrium) == ~shouldContinue /\ ~isAtEquilibrium

\* CreatedNodes that places every node anew
CreatedNodesAfresh(key, ns, ls, st) ==
    {[i \in 1..Len(ns) |-> Merge(ns[i], at[i])] : at \in [1..Len(ns) -> SpherePoints]}

\* the node arrays that algorithm.create(ns, ls, st) can leave
CreatedNodes(key, ns, ls, st) ==
    CASE key = "3d-force-directed" -> ScatterFrom(ns, 1)
      [] key = "fruchterman-reingold-3d" ->
             {[i \in 1..Len(ns) |->
                  IF HasPosition(ns[i]) THEN ns[i] ELSE Merge(ns[i], at[i])] :
                 at \in [1..Len(ns) -> SpherePoints]}
      [] key = "spherical" -> {SphericalNodes(ns, ls, st)}
      [] key = "layered" -> {LayeredNodes(ns, ls, st)}

\* effect "Initialize simulation" followed by effect "Update algorithm
\* settings": create() on fresh nodes and create() again on the same nodes
CreatedTwice(key, ns, ls, st) ==
    UNION {CreatedNodes(key, first, ls, st) : first \in CreatedNodes(key, ns, ls, st)}

\* simulationRef.current = algorithm.create(nodes, links, algorithmSettings)
NewHandle(key, created, ls, st) ==
    /\ algorithm' = key
    /\ nodes' \in created
    /\ links' = ls
    /\ settings' = st
    /\ temperature' = IF key = "fruchterman-reingold-3d"
                      THEN InitialTemperature(st) ELSE <<0, 1>>
    /\ currentIteration' = 0
    /\ time' = 0
    /\ result' = "none"
    /\ calls' = 0
    /\ returnedFalse' = FALSE

KeepHandle ==
    UNCHANGED <<algorithm, nodes, links, settings, temperature, currentIteration,
                time, result, calls, returnedFalse>>

\* the state of App and NetworkGraph3D with nothing loaded
Unmounted(key, st) ==
    [mounted |-> FALSE,
     networkData |-> NoData,
     selectedAlgorithm |-> key,
     algorithmSettings |-> st,
     isSimulationRunning |-> TRUE,
     isAtEquilibrium |-> FALSE,      \* NetworkGraph3D, as rendered
     pendingEquilibrium |-> "none",  \* setIsAtEquilibrium not yet rendered
     equilibriumStatus |-> FALSE,    \* App, as rendered
     pendingStatus |-> "none",       \* setEquilibriumStatus not yet rendered
     resumeTimers |-> 0,             \* setTimeout of handleRestart
     boundsTimers |-> 0,             \* setTimeout of the settings effect, scheduled
     fitTimers |-> 0,                \* setTimeout of the initialize effect, scheduled
     handle |-> 0,                   \* create() calls made so far
     handleAtRestart |-> 0,          \* `handle` when Restart was pressed
     replacedFalse |-> FALSE,        \* the handle replaced last had returned false
     event |-> "none",               \* what happened last
     lastCall |-> "none",            \* onEquilibriumChange(x) made by it
     events |-> 0]

\* App before a network is loaded, so with NetworkGraph3D not mounted: the
\* user may have chosen a layout and moved its slider
InitHost ==
    /\ algorithm = "none"
    /\ nodes = <<>>
    /\ links = <<>>
    /\ settings = NoSettings
    /\ temperature = <<0, 1>>
    /\ currentIteration = 0
    /\ time = 0
    /\ result = "none"
    /\ calls = 0
    /\ returnedFalse = FALSE
    /\ \E key \in DOMAIN LAYOUT_ALGORITHMS :
          \E value \in SliderValues(key) :
             host = Unmounted(key, [DefaultSettings(key) EXCEPT ![Slider(key)] = value])

\* handleRestart
Restarted(h) ==
    [h EXCEPT !.isSimulationRunning = FALSE, !.resumeTimers = @ + 1,
              !.handleAtRestart = h.handle]

\* the bookkeeping of the effect "Initialize simulation"
Initialized(h) ==
    [h EXCEPT !.pendingEquilibrium = "false", !.pendingStatus = "false",
              !.lastCall = "false", !.fitTimers = @ + 1, !.handle = @ + 1,
              !.replacedFalse = returnedFalse]

\* the bookkeeping of the effect "Update algorithm settings"
Updated(h) ==
    [h EXCEPT !.pendingEquilibrium = "false", !.boundsTimers = @ + 1,
              !.handle = @ + 1]

\* setNetworkData(parsedData): NetworkGraph3D mounts and runs both effects,
\* or, when mounted, runs the effect that depends on the data
LoadData ==
    /\ host.mounted => host.events < MaxEvents
    /\ \E data \in NetworkData :
          /\ IF host.mounted
             THEN NewHandle(host.selectedAlgorithm,
                            CreatedNodes(host.selectedAlgorithm, data.nodes,
                                         data.links, host.algorithmSettings),
                            data.links, host.algorithmSettings)
             ELSE NewHandle(host.selectedAlgorithm,
                            CreatedTwice(host.selectedAlgorithm, data.nodes,
                                         data.links, host.algorithmSettings),
                            data.links, host.algorithmSettings)
          /\ host' = [(IF host.mounted THEN Initialized(host)
                       ELSE Updated(Initialized(host)))
                         EXCEPT !.mounted = TRUE, !.networkData = data,
                                !.event = "data",
                                !.events = IF host.mounted THEN @ + 1 ELSE @]

\* handleAlgorithmChange(key), and the two effects when mounted
ChangeAlgorithm ==
    /\ host.events < MaxEvents
    /\ \E key \in DOMAIN LAYOUT_ALGORITHMS \ {host.selectedAlgorithm} :
          /\ IF host.mounted
             THEN NewHandle(key,
                            CreatedTwice(key, host.networkData.nodes,
                                         host.networkData.links, DefaultSettings(key)),
                            host.networkData.links, DefaultSettings(key))
             ELSE KeepHandle
          /\ host' = [(IF host.mounted THEN Updated(Initialized(Restarted(host)))
                       ELSE [Restarted(host) EXCEPT !.lastCall = "none"])
                         EXCEPT !.selectedAlgorithm = key,
                                !.algorithmSettings = DefaultSettings(key),
                                !.event = "algorithm", !.events = @ + 1]

\* handleAlgorithmSettingsChange({[setting]: value}), and the effect "Update
\* algorithm settings" when mounted
ChangeSettings ==
    /\ host.events < MaxEvents
    /\ \E value \in SliderValues(host.selectedAlgorithm) :
          /\ value # host.algorithmSettings[Slider(host.selectedAlgorithm)]
          /\ \E st \in {[host.algorithmSettings
                            EXCEPT ![Slider(host.selectedAlgorithm)] = value]} :
                /\ IF host.mounted
                   THEN NewHandle(algorithm,
                                  CreatedNodes(algorithm, nodes, links, st), links, st)
                   ELSE KeepHandle
                /\ host' = [(IF host.mounted
                             THEN [Updated(host) EXCEPT !.replacedFalse = returnedFalse]
                             ELSE host)
                               EXCEPT !.algorithmSettings = st, !.lastCall = "none",
                                      !.event = "settings", !.events = @ + 1]

\* the Restart button: handleRandomizeLayout, handleRestart
Restart ==
    /\ host.events < MaxEvents
    /\ host' = [Restarted(host) EXCEPT !.lastCall = "none", !.event = "restart",
                                       !.events = @ + 1]
    /\ KeepHandle

\* setTimeout(() => setIsSimulationRunning(true), 100)
Resume ==
    /\ host.resumeTimers > 0
    /\ host' = [host EXCEPT !.resumeTimers = @ - 1, !.isSimulationRunning = TRUE,
                            !.lastCall = "none", !.event = "resume"]
    /\ KeepHandle

\* useFrame: one step() while the simulation is running, and the report of
\* the first false
Frame ==
    /\ host.mounted
    /\ host.isSimulationRunning
    /\ \/ StepForceDirectedWithin(MaxCalls)
       \/ StepFruchtermanReingoldWithin(MaxFrames)
       \/ StepSphericalWithin(MaxCalls)
       \/ StepLayeredWithin(MaxCalls)
    /\ host' = IF Notifies(result' = "true", host.isAtEquilibrium)
               THEN [host EXCEPT !.pendingEquilibrium = "true",
                                 !.pendingStatus = "true",
                                 !.lastCall = "true", !.event = "frame"]
               ELSE [host EXCEPT !.lastCall = "none", !.event = "frame"]

\* React renders App and NetworkGraph3D with the state updates made so far
Render ==
    /\ host.pendingEquilibrium # "none" \/ host.pendingStatus # "none"
    /\ host' = [host EXCEPT
                   !.isAtEquilibrium = IF host.pendingEquilibrium = "none" THEN @
                                       ELSE host.pendingEquilibrium = "true",
                   !.equilibriumStatus = IF host.pendingStatus = "none" THEN @
                                         ELSE host.pendingStatus = "true",
                   !.pendingEquilibrium = "none", !.pendingStatus = "none",
                   !.lastCall = "none", !.event = "render"]
    /\ KeepHandle

\* the host until a scheduled bounds or camera callback comes due
NextHost ==
    \/ LoadData
    \/ ChangeAlgorithm
    \/ ChangeSettings
    \/ Restart
    \/ Resume
    \/ Frame
    \/ Render

SpecHost == InitHost /\ [][NextHost]_vars

----------------------------------------------------------------------------
(* Restart, equilibrium reports and settings changes in the host *)

\* C23 (as stated): after a Restart (the button pressed and the simulation
\* running again) the active handle is a newly created one
C23_RestartRecreates ==
    (host.mounted /\ host.event = "resume") => host.handle # host.handleAtRestart

\* no state update waits for a render
Rendered == host.pendingEquilibrium = "none" /\ host.pendingStatus = "none"

ChangeEvents == {"data", "algorithm", "settings"}

\* C27: once the equilibrium flag is set, it stays set and no frame calls
\* onEquilibriumChange(true) until the data, the algorithm or the settings
\* change, while the frames keep calling step()
C27_NotifiedOnce ==
    [][(host.mounted /\ host.isAtEquilibrium /\ host.pendingEquilibrium = "none"
          /\ host'.event \notin ChangeEvents)
         => (host'.isAtEquilibrium /\ host'.lastCall # "true")]_vars

\* a frame has called step() a second time on a handle whose equilibrium is
\* flagged; the call returned false and the frame reported nothing
C27_Witness ==
    /\ host.mounted
    /\ host.isAtEquilibrium
    /\ host.event = "frame"
    /\ host.lastCall = "none"
    /\ result = "false"
    /\ calls >= 2

\* C28 (as stated): once every pending state update is rendered, the status
\* that App holds equals the equilibrium flag of NetworkGraph3D
C28_StatusAgrees ==
    (host.mounted /\ Rendered) => host.equilibriumStatus = host.isAtEquilibrium

====
